---- MODULE Spec2Model ----
(***************************************************************************)
(* Meal-Planner: shopping-list aggregation, inventory ledger and planner   *)
(* slots, modelled from src/src/services/shopping.ts, the inventory        *)
(* service (src/unnamed/part_007), src/src/services/planner.ts and the SQL *)
(* schema and procedures under src/supabase and src/cleanup-script.sql.    *)
(*                                                                         *)
(* Text is a sequence of one-character strings, so that the normalisation  *)
(* functions are computed character by character as the code computes     *)
(* them.  Quantities are exact rationals with denominator Den: the integer *)
(* n stands for n/Den, so that servings / base_servings is not rounded.    *)
(***************************************************************************)
EXTENDS Integers, Sequences, FiniteSets, TLC

----------------------------------------------------------------------------
(* Text                                                                    *)

\* SQL NULL / JS null for a text column: a token that is no character.
NULL == <<"null">>

UpperChars == <<"A","B","C","D","E","F","G","H","I","J","K","L","M","N","O","P","Q","R","S","T","U","V","W","X","Y","Z","É","È","Â","Î","À">>
LowerChars == <<"a","b","c","d","e","f","g","h","i","j","k","l","m","n","o","p","q","r","s","t","u","v","w","x","y","z","é","è","â","î","à">>

\* One character of String.prototype.toLowerCase / toUpperCase.
ToLowerChar(c) ==
  IF \E i \in 1..Len(UpperChars) : UpperChars[i] = c
  THEN LowerChars[CHOOSE i \in 1..Len(UpperChars) : UpperChars[i] = c]
  ELSE c

ToUpperChar(c) ==
  IF \E i \in 1..Len(LowerChars) : LowerChars[i] = c
  THEN UpperChars[CHOOSE i \in 1..Len(LowerChars) : LowerChars[i] = c]
  ELSE c

toLowerCase(s) == [i \in 1..Len(s) |-> ToLowerChar(s[i])]

\* \s of a JavaScript regular expression, and what String.prototype.trim strips.
WhiteSpace == {" ", "\t"}

\* The character class [,.\s] of normalizeIngredientName.
PunctuationOrSpace == {",", "."} \cup WhiteSpace

\* \w of a JavaScript regular expression without the u flag: ASCII only.
WordChars == {"a","b","c","d","e","f","g","h","i","j","k","l","m","n","o","p","q","r","s","t","u","v","w","x","y","z",
              "A","B","C","D","E","F","G","H","I","J","K","L","M","N","O","P","Q","R","S","T","U","V","W","X","Y","Z",
              "0","1","2","3","4","5","6","7","8","9","_"}

RECURSIVE StripLeading(_, _)
StripLeading(s, cs) ==
  IF s # <<>> /\ Head(s) \in cs THEN StripLeading(Tail(s), cs) ELSE s

RECURSIVE StripTrailing(_, _)
StripTrailing(s, cs) ==
  IF s # <<>> /\ s[Len(s)] \in cs
  THEN StripTrailing(SubSeq(s, 1, Len(s) - 1), cs)
  ELSE s

trim(s) == StripTrailing(StripLeading(s, WhiteSpace), WhiteSpace)

\* \b between positions i-1 and i of s (i in 1..Len(s)+1).
WordBoundary(s, i) ==
  LET before == i > 1 /\ s[i - 1] \in WordChars
      after  == i <= Len(s) /\ s[i] \in WordChars
  IN  before # after

\* /\bw\b/ matches s at position i.
MatchesAt(s, i, w) ==
  /\ i + Len(w) - 1 <= Len(s)
  /\ SubSeq(s, i, i + Len(w) - 1) = w
  /\ WordBoundary(s, i)
  /\ WordBoundary(s, i + Len(w))

\* s.replace(/\b(ws[1]|ws[2]|...)\b/g, '') from position i on: the
\* alternatives are tried in order at each position, matches do not overlap.
RECURSIVE RemoveWords(_, _, _)
RemoveWords(s, i, ws) ==
  IF i > Len(s) THEN <<>>
  ELSE IF \E k \in 1..Len(ws) : MatchesAt(s, i, ws[k])
       THEN LET k == CHOOSE k \in 1..Len(ws) :
                       /\ MatchesAt(s, i, ws[k])
                       /\ \A j \in 1..(k - 1) : ~MatchesAt(s, i, ws[j])
            IN  RemoveWords(s, i + Len(ws[k]), ws)
       ELSE <<s[i]>> \o RemoveWords(s, i + 1, ws)

----------------------------------------------------------------------------
(* Normalisation tables and functions (shopping.ts)                        *)

INGREDIENT_TRANSLATIONS ==
     (<<"o","l","i","v","e"," ","o","i","l">> :> <<"h","u","i","l","e"," ","d","'","o","l","i","v","e">>)
  @@ (<<"o","i","l">> :> <<"h","u","i","l","e">>)
  @@ (<<"g","a","r","l","i","c">> :> <<"a","i","l">>)
  @@ (<<"o","n","i","o","n">> :> <<"o","i","g","n","o","n">>)
  @@ (<<"o","n","i","o","n","s">> :> <<"o","i","g","n","o","n">>)
  @@ (<<"r","e","d"," ","o","n","i","o","n">> :> <<"o","i","g","n","o","n"," ","r","o","u","g","e">>)
  @@ (<<"t","o","m","a","t","o">> :> <<"t","o","m","a","t","e">>)
  @@ (<<"t","o","m","a","t","o","e","s">> :> <<"t","o","m","a","t","e">>)
  @@ (<<"c","h","e","r","r","y"," ","t","o","m","a","t","o","e","s">> :> <<"t","o","m","a","t","e","s"," ","c","e","r","i","s","e","s">>)
  @@ (<<"t","o","m","a","t","o"," ","p","a","s","t","e">> :> <<"c","o","n","c","e","n","t","r","é"," ","d","e"," ","t","o","m","a","t","e">>)
  @@ (<<"s","a","l","t">> :> <<"s","e","l">>)
  @@ (<<"p","e","p","p","e","r">> :> <<"p","o","i","v","r","e">>)
  @@ (<<"b","l","a","c","k"," ","p","e","p","p","e","r">> :> <<"p","o","i","v","r","e"," ","n","o","i","r">>)
  @@ (<<"s","u","g","a","r">> :> <<"s","u","c","r","e">>)
  @@ (<<"f","l","o","u","r">> :> <<"f","a","r","i","n","e">>)
  @@ (<<"b","u","t","t","e","r">> :> <<"b","e","u","r","r","e">>)
  @@ (<<"e","g","g">> :> <<"o","e","u","f">>)
  @@ (<<"e","g","g","s">> :> <<"o","e","u","f","s">>)
  @@ (<<"m","i","l","k">> :> <<"l","a","i","t">>)
  @@ (<<"c","r","e","a","m">> :> <<"c","r","è","m","e">>)
  @@ (<<"c","h","e","e","s","e">> :> <<"f","r","o","m","a","g","e">>)
  @@ (<<"c","h","i","c","k","e","n">> :> <<"p","o","u","l","e","t">>)
  @@ (<<"b","e","e","f">> :> <<"b","o","e","u","f">>)
  @@ (<<"p","o","r","k">> :> <<"p","o","r","c">>)
  @@ (<<"f","i","s","h">> :> <<"p","o","i","s","s","o","n">>)
  @@ (<<"r","i","c","e">> :> <<"r","i","z">>)
  @@ (<<"p","a","s","t","a">> :> <<"p","â","t","e","s">>)
  @@ (<<"p","o","t","a","t","o">> :> <<"p","o","m","m","e"," ","d","e"," ","t","e","r","r","e">>)
  @@ (<<"p","o","t","a","t","o","e","s">> :> <<"p","o","m","m","e","s"," ","d","e"," ","t","e","r","r","e">>)
  @@ (<<"c","a","r","r","o","t">> :> <<"c","a","r","o","t","t","e">>)
  @@ (<<"c","a","r","r","o","t","s">> :> <<"c","a","r","o","t","t","e","s">>)
  @@ (<<"l","e","m","o","n">> :> <<"c","i","t","r","o","n">>)
  @@ (<<"l","e","t","t","u","c","e">> :> <<"l","a","i","t","u","e">>)
  @@ (<<"c","u","c","u","m","b","e","r">> :> <<"c","o","n","c","o","m","b","r","e">>)
  @@ (<<"a","v","o","c","a","d","o">> :> <<"a","v","o","c","a","t">>)
  @@ (<<"b","e","l","l"," ","p","e","p","p","e","r">> :> <<"p","o","i","v","r","o","n">>)
  @@ (<<"b","e","r","r","i","e","s">> :> <<"f","r","u","i","t","s"," ","r","o","u","g","e","s">>)
  @@ (<<"p","a","r","s","l","e","y">> :> <<"p","e","r","s","i","l">>)
  @@ (<<"b","a","s","i","l">> :> <<"b","a","s","i","l","i","c">>)
  @@ (<<"t","h","y","m","e">> :> <<"t","h","y","m">>)
  @@ (<<"o","r","e","g","a","n","o">> :> <<"o","r","i","g","a","n">>)
  @@ (<<"g","i","n","g","e","r">> :> <<"g","i","n","g","e","m","b","r","e">>)
  @@ (<<"s","o","y"," ","s","a","u","c","e">> :> <<"s","a","u","c","e"," ","s","o","j","a">>)
  @@ (<<"h","o","n","e","y">> :> <<"m","i","e","l">>)
  @@ (<<"v","i","n","e","g","a","r">> :> <<"v","i","n","a","i","g","r","e">>)
  @@ (<<"w","a","t","e","r">> :> <<"e","a","u">>)
  @@ (<<"b","r","o","t","h">> :> <<"b","o","u","i","l","l","o","n">>)
  @@ (<<"s","t","o","c","k">> :> <<"b","o","u","i","l","l","o","n">>)
  @@ (<<"c","h","i","c","k","e","n"," ","b","r","o","t","h">> :> <<"b","o","u","i","l","l","o","n"," ","d","e"," ","p","o","u","l","e","t">>)
  @@ (<<"b","e","e","f"," ","b","r","o","t","h">> :> <<"b","o","u","i","l","l","o","n"," ","d","e"," ","b","o","e","u","f">>)

PLURAL_NORMALIZATIONS ==
     (<<"o","i","g","n","o","n","s">> :> <<"o","i","g","n","o","n">>)
  @@ (<<"t","o","m","a","t","e","s">> :> <<"t","o","m","a","t","e">>)
  @@ (<<"c","a","r","o","t","t","e","s">> :> <<"c","a","r","o","t","t","e">>)
  @@ (<<"p","o","m","m","e","s"," ","d","e"," ","t","e","r","r","e">> :> <<"p","o","m","m","e"," ","d","e"," ","t","e","r","r","e">>)
  @@ (<<"o","e","u","f","s">> :> <<"o","e","u","f">>)
  @@ (<<"g","o","u","s","s","e","s">> :> <<"g","o","u","s","s","e">>)

UNIT_NORMALIZATIONS ==
     (<<"t","b","s","p">> :> <<"c","."," ","à"," ","s","o","u","p","e">>)
  @@ (<<"t","a","b","l","e","s","p","o","o","n">> :> <<"c","."," ","à"," ","s","o","u","p","e">>)
  @@ (<<"t","a","b","l","e","s","p","o","o","n","s">> :> <<"c","."," ","à"," ","s","o","u","p","e">>)
  @@ (<<"c","u","i","l","."," ","à"," ","s","o","u","p","e">> :> <<"c","."," ","à"," ","s","o","u","p","e">>)
  @@ (<<"t","s","p">> :> <<"c","."," ","à"," ","c","a","f","é">>)
  @@ (<<"t","e","a","s","p","o","o","n">> :> <<"c","."," ","à"," ","c","a","f","é">>)
  @@ (<<"t","e","a","s","p","o","o","n","s">> :> <<"c","."," ","à"," ","c","a","f","é">>)
  @@ (<<"c","u","p">> :> <<"t","a","s","s","e">>)
  @@ (<<"c","u","p","s">> :> <<"t","a","s","s","e">>)
  @@ (<<"c","l","o","v","e">> :> <<"g","o","u","s","s","e">>)
  @@ (<<"c","l","o","v","e","s">> :> <<"g","o","u","s","s","e","s">>)
  @@ (<<"p","i","e","c","e">> :> <<"p","i","è","c","e">>)
  @@ (<<"p","i","e","c","e","s">> :> <<"p","i","è","c","e","s">>)
  @@ (<<"h","e","a","d">> :> <<"p","i","è","c","e">>)
  @@ (<<"s","l","i","c","e">> :> <<"t","r","a","n","c","h","e">>)
  @@ (<<"s","l","i","c","e","s">> :> <<"t","r","a","n","c","h","e","s">>)
  @@ (<<"g">> :> <<"g">>)
  @@ (<<"k","g">> :> <<"k","g">>)
  @@ (<<"m","l">> :> <<"m","l">>)
  @@ (<<"l">> :> <<"l">>)

\* INGREDIENT_TRANSLATIONS[k] / PLURAL_NORMALIZATIONS[k] / UNIT_NORMALIZATIONS[k]
\* when the key exists, else the text itself.
Lookup(tbl, k) == IF k \in DOMAIN tbl THEN tbl[k] ELSE k

normalizeIngredientName(name) ==
  LET lowered    == trim(toLowerCase(name))
      stripped   == StripTrailing(StripLeading(lowered, PunctuationOrSpace),
                                  PunctuationOrSpace)
      translated == Lookup(INGREDIENT_TRANSLATIONS, stripped)
      singular   == Lookup(PLURAL_NORMALIZATIONS, translated)
      noFresh    == RemoveWords(singular, 1, << <<"f","r","e","s","h">> >>)
      noFrais    == RemoveWords(noFresh, 1, << <<"f","r","a","i","s">> >>)
      noFraiche  == RemoveWords(noFrais, 1, << <<"f","r","a","î","c","h","e">>,
                                               <<"f","r","a","î","c","h">> >>)
  IN  trim(noFraiche)

normalizeUnit(unit) ==
  IF unit = NULL \/ unit = <<>> THEN <<>>
  ELSE Lookup(UNIT_NORMALIZATIONS, trim(toLowerCase(unit)))

capitalizeFirst(str) ==
  IF str = <<>> THEN <<>> ELSE <<ToUpperChar(str[1])>> \o Tail(str)

----------------------------------------------------------------------------
(* Quantities and the store                                                *)

\* Denominator of every quantity: base_servings values used divide it, and
\* it is a power of two, so NUMERIC and IEEE double arithmetic are exact.
Den == 2 * 2

\* The whole number n as a quantity.
Units(n) == n * Den

Max(a, b) == IF a >= b THEN a ELSE b
Min(a, b) == IF a <= b THEN a ELSE b

\* A nullable number is a sequence of length 0 (null) or 1.
None == <<>>
Some(v) == <<v>>

\* JS Map.get(k) ?? d, and Map.set(k, v).
MapGet(m, k, d) == IF k \in DOMAIN m THEN m[k] ELSE d
MapSet(m, k, v) == [y \in DOMAIN m \cup {k} |-> IF y = k THEN v ELSE m[y]]

\* The orders in which a query without ORDER BY may return the rows S.
Perms(S) ==
  {f \in [1..Cardinality(S) -> S] :
     \A i, j \in 1..Cardinality(S) : i # j => f[i] # f[j]}

VARIABLES
  recipes,            \* recipes joined with ingredients: id -> [base_servings, ingredients]
  plannedMeals,       \* table planned_meals: set of rows
  inventory,          \* table inventory: set of rows
  transactions,       \* table inventory_transactions, in insertion order
  shoppingLists,      \* table shopping_lists, in insertion order
  shoppingListItems,  \* table shopping_list_items, in insertion order
  gpc,                \* generateShoppingList: position of the running call
  gArgs,              \* its startDate, endDate, userId
  gMeals,             \* const meals (step 1)
  inventoryMap,       \* const inventoryMap (step 1.5), mutated by step 2.1
  aggregated,         \* const aggregated: Map in insertion order
  gList,              \* const list (step 3)
  gResult,            \* what the last call returned
  lpc,                \* inventory service: position of each client's running call
  lcall,              \* its arguments and locals
  items,              \* InventoryList: the component's items state, per client
  lResult,            \* what each client's last call returned
  ppc,                \* planner service: position of each session's running call
  pcall,              \* its arguments
  nextMealId,         \* the id the next inserted planned meal gets
  pResult,            \* what each session's last call returned
  aResult,            \* what the last call made without a session returned
  aRequests,          \* the statements such calls have sent to the tables
  fpc,                \* RestockingForm: unmounted, shown, or the position of handleSubmit
  quantities,         \* its quantities state: item id -> QuantityInput
  fTodo,              \* Object.values(quantities) not yet visited by handleSubmit
  fInventory,         \* const inventoryItems of handleSubmit
  fProcessed,         \* const processedItems of handleSubmit
  fEdited,            \* the fields the user has typed a quantity into
  rpc,                \* ShoppingListPage: position of handleGenerate / handleRegenerate
  pageDates,          \* its startDate and endDate state (the generate form)
  selectedList,       \* its selectedList state: id and dates, id 0 for null
  cpc,                \* recipes.ts: position of createRecipe / updateRecipe
  ccall,              \* the arguments of the call in progress
  cResult             \* what the last call returned

dbVars   == <<recipes, plannedMeals, inventory, transactions, shoppingLists, shoppingListItems>>
shopVars == <<gpc, gArgs, gMeals, inventoryMap, aggregated, gList, gResult>>
ledgerVars  == <<lpc, lcall, items, lResult>>
plannerVars == <<ppc, pcall, nextMealId, pResult>>
anonVars == <<aResult, aRequests>>
formVars == <<fpc, quantities, fTodo, fInventory, fProcessed, fEdited>>
pageVars == <<rpc, pageDates, selectedList>>
recipeVars == <<cpc, ccall, cResult>>
vars     == <<dbVars, shopVars, ledgerVars, plannerVars, anonVars, formVars, pageVars, recipeVars>>

----------------------------------------------------------------------------
(* generateShoppingList (shopping.ts)                                      *)

\* x || d for a number x.
OrDefault(v, d) == IF v = 0 THEN d ELSE v

\* Step 1: planned_meals with date in [startDate, endDate] visible to the
\* user, each joined with its recipe (null when the recipe is not visible)
\* and the recipe's ingredients; no ORDER BY on either level.
MealRows(userId, startDate, endDate) ==
  {m \in plannedMeals : m.user_id = userId /\ m.date >= startDate /\ m.date <= endDate}

JoinRecipe(m, ingredientOrder) ==
  [id |-> m.id, servings |-> m.servings,
   recipe |-> IF m.recipe_id \in DOMAIN recipes
              THEN <<[id |-> m.recipe_id,
                      base_servings |-> recipes[m.recipe_id].base_servings,
                      ingredients |-> ingredientOrder[m.recipe_id]]>>
              ELSE <<>>]

\* Step 1.5: inventoryMap, normalized name -> normalized unit -> summed quantity.
RECURSIVE BuildInventoryMap(_, _)
BuildInventoryMap(rows, map) ==
  IF rows = <<>> THEN map
  ELSE LET item       == Head(rows)
           normalized == normalizeIngredientName(item.name)
           unit       == normalizeUnit(item.unit)
           unitMap    == MapGet(map, normalized, <<>>)
       IN  BuildInventoryMap(Tail(rows),
             MapSet(map, normalized,
                    MapSet(unitMap, unit, MapGet(unitMap, unit, 0) + item.quantity)))

\* Map.get(key) on aggregated: the index of the entry, 0 when absent.
IndexOfKey(agg, key) ==
  IF \E i \in 1..Len(agg) : agg[i].key = key
  THEN CHOOSE i \in 1..Len(agg) : agg[i].key = key /\ \A j \in 1..(i - 1) : agg[j].key # key
  ELSE 0

\* quantities.find(q => q.unit === unit): the index, 0 when absent.
IndexOfUnit(qs, unit) ==
  IF \E i \in 1..Len(qs) : qs[i].unit = unit
  THEN CHOOSE i \in 1..Len(qs) : qs[i].unit = unit /\ \A j \in 1..(i - 1) : qs[j].unit # unit
  ELSE 0

\* existingQty.quantity += n, or quantities.push({quantity: n, unit}).
AddQuantity(qs, unit, n) ==
  LET i == IndexOfUnit(qs, unit)
  IN  IF i > 0 THEN [qs EXCEPT ![i].quantity = @ + n]
      ELSE Append(qs, [quantity |-> n, unit |-> unit])

\* Mutant of NeededQuantity: servings / base_servings as an integer division.
NeededQuantityIntegerRatio(quantity, plannedServings, baseServings) ==
  (IF quantity = None THEN Units(1) ELSE quantity[1]) * (plannedServings \div baseServings)

\* (ingredient.quantity ?? 1) * (plannedServings / baseServings), exact.
NeededQuantity(quantity, plannedServings, baseServings) ==
  ((IF quantity = None THEN Units(1) ELSE quantity[1]) * plannedServings) \div baseServings

\* Mutant of AddIngredient: groups by the lower-cased name, not translated.
AddIngredientRawName(agg, ingredient, plannedServings, baseServings) ==
  LET normalizedName == trim(toLowerCase(ingredient.name))
      normalizedUnit == normalizeUnit(ingredient.unit)
      existing       == IndexOfKey(agg, normalizedName)
      neededQuantity == NeededQuantity(ingredient.quantity, plannedServings, baseServings)
  IN  IF existing > 0
      THEN [agg EXCEPT ![existing].quantities = AddQuantity(@, normalizedUnit, neededQuantity)]
      ELSE Append(agg, [key        |-> normalizedName,
                        name       |-> capitalizeFirst(normalizedName),
                        quantities |-> <<[quantity |-> neededQuantity, unit |-> normalizedUnit]>>,
                        aisle      |-> ingredient.aisle,
                        isLowStock |-> FALSE])

\* The body of the loop over recipe.ingredients.
AddIngredient(agg, ingredient, plannedServings, baseServings) ==
  LET normalizedName == normalizeIngredientName(ingredient.name)
      normalizedUnit == normalizeUnit(ingredient.unit)
      existing       == IndexOfKey(agg, normalizedName)
      neededQuantity == NeededQuantity(ingredient.quantity, plannedServings, baseServings)
  IN  IF existing > 0
      THEN [agg EXCEPT ![existing].quantities = AddQuantity(@, normalizedUnit, neededQuantity)]
      ELSE Append(agg, [key        |-> normalizedName,
                        name       |-> capitalizeFirst(normalizedName),
                        quantities |-> <<[quantity |-> neededQuantity, unit |-> normalizedUnit]>>,
                        aisle      |-> ingredient.aisle,
                        isLowStock |-> FALSE])

RECURSIVE AddIngredients(_, _, _, _)
AddIngredients(agg, ingredients, plannedServings, baseServings) ==
  IF ingredients = <<>> THEN agg
  ELSE AddIngredients(AddIngredient(agg, Head(ingredients), plannedServings, baseServings),
                      Tail(ingredients), plannedServings, baseServings)

\* Step 2: the loop over meals.
RECURSIVE AggregateMeals(_, _)
AggregateMeals(meals, agg) ==
  IF meals = <<>> THEN agg
  ELSE LET meal == Head(meals)
       IN  IF meal.recipe = <<>> THEN AggregateMeals(Tail(meals), agg)
           ELSE AggregateMeals(Tail(meals),
                  AddIngredients(agg, meal.recipe[1].ingredients,
                                 OrDefault(meal.servings, 1),
                                 OrDefault(meal.recipe[1].base_servings, 4)))

\* Mutant of DeductQuantities: nets against the stock of any unit of the name.
RECURSIVE DeductQuantitiesAnyUnit(_, _, _)
DeductQuantitiesAnyUnit(qs, stockByUnit, remainingQuantities) ==
  IF qs = <<>> THEN [remaining |-> remainingQuantities, stock |-> stockByUnit]
  ELSE LET qu      == Head(qs)
           held    == {u \in DOMAIN stockByUnit : stockByUnit[u] > 0}
           unit    == IF held = {} THEN qu.unit ELSE CHOOSE u \in held : TRUE
           inStock == MapGet(stockByUnit, unit, 0)
       IN  IF inStock > 0
           THEN LET remainingNeeded == Max(0, qu.quantity - inStock)
                IN  DeductQuantitiesAnyUnit(Tail(qs),
                      MapSet(stockByUnit, unit, Max(0, inStock - qu.quantity)),
                      IF remainingNeeded > 0
                      THEN Append(remainingQuantities,
                                  [quantity |-> remainingNeeded, unit |-> qu.unit])
                      ELSE remainingQuantities)
           ELSE DeductQuantitiesAnyUnit(Tail(qs), stockByUnit, Append(remainingQuantities, qu))

\* Mutant of DeductQuantities: a sub-total the stock covers stays, at 0.
RECURSIVE DeductQuantitiesKeepingCovered(_, _, _)
DeductQuantitiesKeepingCovered(qs, stockByUnit, remainingQuantities) ==
  IF qs = <<>> THEN [remaining |-> remainingQuantities, stock |-> stockByUnit]
  ELSE LET qu      == Head(qs)
           inStock == MapGet(stockByUnit, qu.unit, 0)
       IN  DeductQuantitiesKeepingCovered(Tail(qs),
             MapSet(stockByUnit, qu.unit, Max(0, inStock - qu.quantity)),
             Append(remainingQuantities,
                    [quantity |-> Max(0, qu.quantity - inStock), unit |-> qu.unit]))

\* Step 2.1, inner loop: nets item.quantities against stockByUnit.
RECURSIVE DeductQuantities(_, _, _)
DeductQuantities(qs, stockByUnit, remainingQuantities) ==
  IF qs = <<>> THEN [remaining |-> remainingQuantities, stock |-> stockByUnit]
  ELSE LET qu      == Head(qs)
           inStock == MapGet(stockByUnit, qu.unit, 0)
       IN  IF inStock > 0
           THEN LET remainingNeeded == Max(0, qu.quantity - inStock)
                IN  DeductQuantities(Tail(qs),
                      MapSet(stockByUnit, qu.unit, Max(0, inStock - qu.quantity)),
                      IF remainingNeeded > 0
                      THEN Append(remainingQuantities,
                                  [quantity |-> remainingNeeded, unit |-> qu.unit])
                      ELSE remainingQuantities)
           ELSE DeductQuantities(Tail(qs), stockByUnit, Append(remainingQuantities, qu))

\* Step 2.1, outer loop over aggregated.entries(): entries [1..i-1] are done.
RECURSIVE DeductInventory(_, _, _)
DeductInventory(agg, map, i) ==
  IF i > Len(agg) THEN [aggregated |-> agg, inventoryMap |-> map]
  ELSE LET item == agg[i]
       IN  IF item.key \notin DOMAIN map THEN DeductInventory(agg, map, i + 1)
           ELSE LET r == DeductQuantities(item.quantities, map[item.key], <<>>)
                    map2 == MapSet(map, item.key, r.stock)
                IN  IF r.remaining = <<>>
                    THEN DeductInventory(SubSeq(agg, 1, i - 1) \o SubSeq(agg, i + 1, Len(agg)),
                                         map2, i)
                    ELSE DeductInventory([agg EXCEPT ![i].quantities = r.remaining],
                                         map2, i + 1)

\* listInventory({lowStock: true}): the rows the user sees with
\* quantity <= min_quantity (the client-side filter).
LowStockRows(userId) ==
  {item \in inventory : item.user_id = userId /\ item.quantity <= item.min_quantity}

\* Step 2.5: how much of a low-stock item to buy.
ToBuy(item, map) ==
  LET normalizedName == normalizeIngredientName(item.name)
      normalizedUnit == normalizeUnit(item.unit)
      currentStock   == IF normalizedName \in DOMAIN map
                           /\ normalizedUnit \in DOMAIN map[normalizedName]
                        THEN map[normalizedName][normalizedUnit]
                        ELSE item.quantity
      toBuy          == Max(0, item.min_quantity - currentStock)
  IN  IF currentStock <= item.min_quantity /\ toBuy = 0 THEN Units(1) ELSE toBuy

\* Step 2.5: the body of the loop over lowStockItems.
AddLowStockItem(agg, item, map) ==
  LET normalizedName == normalizeIngredientName(item.name)
      normalizedUnit == normalizeUnit(item.unit)
      toBuy          == ToBuy(item, map)
      existing       == IndexOfKey(agg, normalizedName)
  IN  IF toBuy <= 0 THEN agg
      ELSE IF existing > 0
      THEN [agg EXCEPT ![existing].quantities = AddQuantity(@, normalizedUnit, toBuy),
                       ![existing].isLowStock = TRUE]
      ELSE Append(agg, [key        |-> normalizedName,
                        name       |-> capitalizeFirst(normalizedName),
                        quantities |-> <<[quantity |-> toBuy, unit |-> normalizedUnit]>>,
                        aisle      |-> item.aisle,
                        isLowStock |-> TRUE])

RECURSIVE AddLowStock(_, _, _)
AddLowStock(agg, lowStockItems, map) ==
  IF lowStockItems = <<>> THEN agg
  ELSE AddLowStock(AddLowStockItem(agg, Head(lowStockItems), map), Tail(lowStockItems), map)

LowStockPrefix == <<"l","o","w","s","t","o","c","k",":">>
OtherAisle     == <<"o","t","h","e","r">>

\* Mutant of ItemRows: one insert row per entry, for its first sub-total.
ItemRowsFirstUnit(item, listId) ==
  <<[shopping_list_id |-> listId,
     name     |-> item.name,
     quantity |-> item.quantities[1].quantity,
     unit     |-> IF item.quantities[1].unit = <<>> THEN NULL ELSE item.quantities[1].unit,
     aisle    |-> item.aisle,
     checked  |-> FALSE]>>

\* Step 4: one insert row per (entry, unit sub-total).
ItemRows(item, listId) ==
  [i \in 1..Len(item.quantities) |->
     [shopping_list_id |-> listId,
      name     |-> item.name,
      quantity |-> item.quantities[i].quantity,
      unit     |-> IF item.quantities[i].unit = <<>> THEN NULL ELSE item.quantities[i].unit,
      aisle    |-> IF item.isLowStock
                   THEN LowStockPrefix \o (IF item.aisle = NULL \/ item.aisle = <<>>
                                           THEN OtherAisle ELSE item.aisle)
                   ELSE item.aisle,
      checked  |-> FALSE]]

RECURSIVE ItemInserts(_, _)
ItemInserts(agg, listId) ==
  IF agg = <<>> THEN <<>>
  ELSE ItemRows(Head(agg), listId) \o ItemInserts(Tail(agg), listId)

\* The CHECK constraints of shopping_list_items: one bad row fails the insert.
ItemRowValid(row) == Len(row.name) >= 1 /\ row.quantity > 0

\* getCurrentUserId() of the session that runs the call.
CurrentUser == "u1"

\* Dates a call may be given, and the number of lists a run may create.
Dates    == {1, 2}
MaxLists == 2

\* generateShoppingList(startDate, endDate), up to its first await.
GenBegin(startDate, endDate) ==
  /\ gpc = "idle"
  /\ Len(shoppingLists) < MaxLists
  /\ gpc' = "meals"
  /\ gArgs' = [startDate |-> startDate, endDate |-> endDate, userId |-> CurrentUser]
  /\ gMeals' = <<>> /\ inventoryMap' = <<>> /\ aggregated' = <<>>
  /\ gList' = 0
  /\ UNCHANGED gResult

GenStart(startDate, endDate) ==
  /\ UNCHANGED <<ledgerVars, plannerVars, anonVars, formVars, pageVars, recipeVars>>
  /\ GenBegin(startDate, endDate)
  /\ UNCHANGED dbVars

\* Step 1: await the planned meals, in some row order.
FetchMeals ==
  /\ UNCHANGED <<ledgerVars, plannerVars, anonVars, formVars, pageVars, recipeVars>>
  /\ gpc = "meals"
  /\ \E mealOrder \in Perms(MealRows(gArgs.userId, gArgs.startDate, gArgs.endDate)) :
       \E ingredientOrder \in [DOMAIN recipes -> UNION {Perms(recipes[r].ingredients) : r \in DOMAIN recipes}] :
          /\ \A r \in DOMAIN recipes : ingredientOrder[r] \in Perms(recipes[r].ingredients)
          /\ gMeals' = [i \in 1..Len(mealOrder) |-> JoinRecipe(mealOrder[i], ingredientOrder)]
  /\ gpc' = "inventory"
  /\ UNCHANGED <<dbVars, gArgs, inventoryMap, aggregated, gList, gResult>>

\* Step 1.5: await the inventory rows and build inventoryMap.
FetchInventory ==
  /\ UNCHANGED <<ledgerVars, plannerVars, anonVars, formVars, pageVars, recipeVars>>
  /\ gpc = "inventory"
  /\ \E rows \in Perms({item \in inventory : item.user_id = gArgs.userId}) :
       inventoryMap' = BuildInventoryMap(rows, <<>>)
  /\ gpc' = "aggregate"
  /\ UNCHANGED <<dbVars, gArgs, gMeals, aggregated, gList, gResult>>

\* Step 2.
Aggregate ==
  /\ UNCHANGED <<ledgerVars, plannerVars, anonVars, formVars, pageVars, recipeVars>>
  /\ gpc = "aggregate"
  /\ aggregated' = AggregateMeals(gMeals, <<>>)
  /\ gpc' = "deduct"
  /\ UNCHANGED <<dbVars, gArgs, gMeals, inventoryMap, gList, gResult>>

\* Step 2.1.
Deduct ==
  /\ UNCHANGED <<ledgerVars, plannerVars, anonVars, formVars, pageVars, recipeVars>>
  /\ gpc = "deduct"
  /\ LET r == DeductInventory(aggregated, inventoryMap, 1)
     IN  aggregated' = r.aggregated /\ inventoryMap' = r.inventoryMap
  /\ gpc' = "lowstock"
  /\ UNCHANGED <<dbVars, gArgs, gMeals, gList, gResult>>

\* Step 2.5: await getLowStockItems() and fold the rows in.
FoldLowStock ==
  /\ UNCHANGED <<ledgerVars, plannerVars, anonVars, formVars, pageVars, recipeVars>>
  /\ gpc = "lowstock"
  /\ \E lowStockItems \in Perms(LowStockRows(gArgs.userId)) :
       aggregated' = AddLowStock(aggregated, lowStockItems, inventoryMap)
  /\ gpc' = "list"
  /\ UNCHANGED <<dbVars, gArgs, gMeals, inventoryMap, gList, gResult>>

\* Step 3: insert the list header; valid_date_range rejects end < start.
CreateList ==
  /\ UNCHANGED <<ledgerVars, plannerVars, anonVars, formVars, pageVars, recipeVars>>
  /\ gpc = "list"
  /\ IF gArgs.endDate >= gArgs.startDate
     THEN LET list == [id |-> Len(shoppingLists) + 1, user_id |-> gArgs.userId,
                       start_date |-> gArgs.startDate, end_date |-> gArgs.endDate]
          IN  /\ shoppingLists' = Append(shoppingLists, list)
              /\ gList' = list.id
              /\ gpc' = "items"
              /\ UNCHANGED gResult
     ELSE /\ gResult' = [list |-> 0, items |-> <<>>, error |-> "Failed to create shopping list"]
          /\ gpc' = "idle"
          /\ UNCHANGED <<shoppingLists, gList>>
  /\ UNCHANGED <<recipes, plannedMeals, inventory, transactions, shoppingListItems,
                 gArgs, gMeals, inventoryMap, aggregated>>

\* Step 4: insert the items in one statement and return.
CreateItems ==
  /\ UNCHANGED <<ledgerVars, plannerVars, anonVars, formVars, pageVars, recipeVars>>
  /\ gpc = "items"
  /\ LET itemInserts == ItemInserts(aggregated, gList)
         inserted    == IF \A i \in 1..Len(itemInserts) : ItemRowValid(itemInserts[i])
                        THEN itemInserts ELSE <<>>
     IN  /\ shoppingListItems' = shoppingListItems \o inserted
         /\ gResult' = [list |-> gList, items |-> inserted, error |-> "none"]
  /\ gpc' = "idle"
  /\ UNCHANGED <<recipes, plannedMeals, inventory, transactions, shoppingLists,
                 gArgs, gMeals, inventoryMap, aggregated, gList>>

\* generate_shopping_list: the rows of planned_meals JOIN recipes JOIN
\* ingredients for the user and the date range, as pairs <<meal, ingredient>>.
JoinedIngredients(v_user_id, p_start_date, p_end_date) ==
  UNION {{<<pm, i>> : i \in recipes[pm.recipe_id].ingredients} :
           pm \in {m \in plannedMeals : /\ m.user_id = v_user_id
                                        /\ m.date >= p_start_date /\ m.date <= p_end_date
                                        /\ m.recipe_id \in DOMAIN recipes}}

\* SUM(COALESCE(i.quantity, 1) * (pm.servings::NUMERIC / COALESCE(r.base_servings, 4))).
RECURSIVE SumScaled(_)
SumScaled(joined) ==
  IF joined = {} THEN 0
  ELSE LET j == CHOOSE x \in joined : TRUE
       IN  NeededQuantity(j[2].quantity, j[1].servings, recipes[j[1].recipe_id].base_servings)
             + SumScaled(joined \ {j})

\* generateShoppingListRpc(startDate, endDate): the stored function
\* generate_shopping_list, which inserts the header and one item per
\* GROUP BY i.name, i.unit, i.aisle in one transaction; a violated
\* constraint aborts it and nothing is inserted.
generate_shopping_list(p_start_date, p_end_date) ==
  /\ UNCHANGED <<ledgerVars, plannerVars, anonVars, formVars, pageVars, recipeVars>>
  /\ gpc = "idle"
  /\ Len(shoppingLists) < MaxLists
  /\ LET v_user_id == CurrentUser
         v_list_id == Len(shoppingLists) + 1
         joined    == JoinedIngredients(v_user_id, p_start_date, p_end_date)
         groups    == {[name |-> j[2].name, unit |-> j[2].unit, aisle |-> j[2].aisle] :
                         j \in joined}
         Row(g)    == [shopping_list_id |-> v_list_id,
                       name     |-> g.name,
                       quantity |-> SumScaled({j \in joined : /\ j[2].name = g.name
                                                               /\ j[2].unit = g.unit
                                                               /\ j[2].aisle = g.aisle}),
                       unit     |-> g.unit,
                       aisle    |-> g.aisle,
                       checked  |-> FALSE]
     IN  IF p_end_date >= p_start_date /\ \A g \in groups : ItemRowValid(Row(g))
         THEN \E order \in Perms(groups) :
                /\ shoppingLists' = Append(shoppingLists,
                                           [id |-> v_list_id, user_id |-> v_user_id,
                                            start_date |-> p_start_date,
                                            end_date |-> p_end_date])
                /\ shoppingListItems' =
                     shoppingListItems \o [k \in 1..Len(order) |-> Row(order[k])]
         ELSE UNCHANGED <<shoppingLists, shoppingListItems>>
  /\ UNCHANGED <<recipes, plannedMeals, inventory, transactions, shopVars>>

\* ORDER BY on a text column: letters compare without case at the first
\* level of the collation, and a character that is not a letter sorts
\* before the letters; texts the ranks do not tell apart come in any order.
CollationRank(ch) ==
  IF \E i \in 1..Len(LowerChars) : LowerChars[i] = ToLowerChar(ch)
  THEN CHOOSE i \in 1..Len(LowerChars) : LowerChars[i] = ToLowerChar(ch)
  ELSE 0

RECURSIVE TextBefore(_, _)
TextBefore(s, t) ==
  IF t = <<>> THEN FALSE
  ELSE IF s = <<>> THEN TRUE
  ELSE IF CollationRank(Head(s)) # CollationRank(Head(t))
       THEN CollationRank(Head(s)) < CollationRank(Head(t))
       ELSE TextBefore(Tail(s), Tail(t))

\* .order('aisle', { ascending: true, nullsFirst: false }).order('name').
ItemBefore(a, b) ==
  IF a.aisle = NULL \/ b.aisle = NULL
  THEN \/ a.aisle # NULL /\ b.aisle = NULL
       \/ a.aisle = NULL /\ b.aisle = NULL /\ TextBefore(a.name, b.name)
  ELSE \/ TextBefore(a.aisle, b.aisle)
       \/ ~TextBefore(b.aisle, a.aisle) /\ TextBefore(a.name, b.name)

\* The items of a list in an order the query may return them.
SortedItems(listId) ==
  LET rows == {k \in 1..Len(shoppingListItems) :
                 shoppingListItems[k].shopping_list_id = listId}
  IN  {[i \in 1..Cardinality(rows) |-> shoppingListItems[p[i]]] :
         p \in {q \in Perms(rows) :
                  \A i, j \in 1..Cardinality(rows) :
                    i < j => ~ItemBefore(shoppingListItems[q[j]], shoppingListItems[q[i]])}}

\* getShoppingList(id), up to the answer of the select on shopping_lists:
\* no row (PGRST116) is returned as { list: null, error: null }.
GetListFetch(id) ==
  /\ UNCHANGED <<ledgerVars, plannerVars, anonVars, formVars, pageVars, recipeVars>>
  /\ gpc = "idle"
  /\ IF \E k \in 1..Len(shoppingLists) :
          shoppingLists[k].id = id /\ shoppingLists[k].user_id = CurrentUser
     THEN /\ gpc' = "get_items"
          /\ gList' = id
          /\ UNCHANGED gResult
     ELSE /\ gResult' = [list |-> 0, items |-> <<>>, error |-> "none"]
          /\ UNCHANGED <<gpc, gList>>
  /\ UNCHANGED <<dbVars, gArgs, gMeals, inventoryMap, aggregated>>

\* getShoppingList: the items of the list, sorted, and the return.
GetListItems ==
  /\ UNCHANGED <<ledgerVars, plannerVars, anonVars, formVars, pageVars, recipeVars>>
  /\ gpc = "get_items"
  /\ \E sorted \in SortedItems(gList) :
       gResult' = [list |-> gList, items |-> sorted, error |-> "none"]
  /\ gpc' = "idle"
  /\ UNCHANGED <<dbVars, gArgs, gMeals, inventoryMap, aggregated, gList>>

----------------------------------------------------------------------------
(* The inventory service (services/inventory.ts), the quick-adjust buttons *)
(* of InventoryList and the stored function deduct_meal_ingredients, run   *)
(* by concurrent clients of one user.  Every await is one step.  Columns   *)
(* that no modelled operation reads (category, expiry_date, location) are  *)
(* left out of the rows.                                                   *)

Clients == {"c1", "c2"}

\* The transactions a run may record.
MaxTx == 2

NoCall == [op |-> "none", id |-> 0, delta |-> 0, before |-> 0, after |-> 0, input |-> <<>>]

\* PostgreSQL ILIKE: % matches any run of characters, _ any one character,
\* and letters match in either case.
RECURSIVE ilike(_, _)
ilike(value, pattern) ==
  IF pattern = <<>> THEN value = <<>>
  ELSE IF Head(pattern) = "%"
       THEN \E k \in 0..Len(value) : ilike(SubSeq(value, k + 1, Len(value)), Tail(pattern))
       ELSE /\ value # <<>>
            /\ Head(pattern) = "_" \/ ToLowerChar(Head(value)) = ToLowerChar(Head(pattern))
            /\ ilike(Tail(value), Tail(pattern))

\* Mutant of QuantityCheck: the column without its CHECK.
NoQuantityCheck(quantity) == TRUE

\* CHECK (quantity >= 0) of table inventory.
QuantityCheck(quantity) == quantity >= 0

\* CONSTRAINT unique_inventory_item UNIQUE (user_id, name, unit): NULL units
\* never collide.
unique_inventory_item(rows, row) ==
  \A r \in rows : ~(r.user_id = row.user_id /\ r.name = row.name
                    /\ r.unit # NULL /\ r.unit = row.unit)

\* Mutant of getInventoryItem: the select without .eq('id', id).
getAnyInventoryItem(id) ==
  IF \E r \in inventory : r.user_id = CurrentUser
  THEN <<CHOOSE r \in inventory : r.user_id = CurrentUser>>
  ELSE <<>>

\* .eq('id', id).single(): the row, or null.
getInventoryItem(id) ==
  IF \E r \in inventory : r.id = id /\ r.user_id = CurrentUser
  THEN <<CHOOSE r \in inventory : r.id = id>>
  ELSE <<>>

\* Mutant of UpdateQuantity: an update without its WHERE clause.
UpdateEveryRow(rows, id, quantity) ==
  {[r EXCEPT !.quantity = quantity] : r \in rows}

\* .update({ quantity }).eq('id', id) on inventory.
UpdateQuantity(rows, id, quantity) ==
  {IF r.id = id THEN [r EXCEPT !.quantity = quantity] ELSE r : r \in rows}

\* logTransaction: the insert, whose failure the helper ignores; the insert
\* policy wants the inventory row to be there and the user's own.
logTransaction(inventoryId, type, quantity, quantityBefore, quantityAfter) ==
  IF getInventoryItem(inventoryId) = <<>> THEN transactions
  ELSE Append(transactions,
              [inventory_id |-> inventoryId, type |-> type, quantity |-> quantity,
               quantity_before |-> quantityBefore, quantity_after |-> quantityAfter,
               planned_meal_id |-> 0])

\* Calls are started while the run has room for their transaction.
CanStart(c) ==
  /\ lpc[c] = "idle"
  /\ Len(transactions) + Cardinality({d \in Clients : lpc[d] # "idle"}) < MaxTx

Return(c, message) ==
  /\ lpc' = [lpc EXCEPT ![c] = "idle"]
  /\ lcall' = [lcall EXCEPT ![c] = NoCall]
  /\ lResult' = [lResult EXCEPT ![c] = message]

ledgerFrame == <<recipes, plannedMeals, shoppingLists, shoppingListItems, shopVars, plannerVars,
                 anonVars, formVars, pageVars, recipeVars>>

\* addToInventory: the select for a row of that name and unit, and what
\* the call keeps of existingQuery.single().
existingQuery(c, input) ==
  /\ LET matches  == {r \in inventory :
                        /\ r.user_id = CurrentUser
                        /\ ilike(r.name, input.name)
                        /\ IF input.unit # NULL /\ input.unit # <<>>
                           THEN r.unit = input.unit ELSE r.unit = NULL}
         existing == IF Cardinality(matches) = 1 THEN <<CHOOSE r \in matches : TRUE>> ELSE <<>>
     IN  IF existing # <<>>
         THEN /\ lpc' = [lpc EXCEPT ![c] = "add_update"]
              /\ lcall' = [lcall EXCEPT ![c] =
                   [op |-> "add", id |-> existing[1].id, delta |-> input.quantity,
                    before |-> existing[1].quantity,
                    after |-> existing[1].quantity + input.quantity, input |-> <<input>>]]
         ELSE /\ lpc' = [lpc EXCEPT ![c] = "add_insert"]
              /\ lcall' = [lcall EXCEPT ![c] =
                   [op |-> "add", id |-> 0, delta |-> input.quantity,
                    before |-> 0, after |-> input.quantity, input |-> <<input>>]]

\* addToInventory, up to the answer of existingQuery.single().
AddFind(c, input) ==
  /\ CanStart(c)
  /\ existingQuery(c, input)
  /\ UNCHANGED <<inventory, transactions, items, lResult, ledgerFrame>>

\* addToInventory: the update of the existing row to newQuantity.
AddUpdate(c) ==
  /\ lpc[c] = "add_update"
  /\ IF getInventoryItem(lcall[c].id) # <<>> /\ QuantityCheck(lcall[c].after)
     THEN /\ inventory' = UpdateQuantity(inventory, lcall[c].id, lcall[c].after)
          /\ lpc' = [lpc EXCEPT ![c] = "add_log"]
          /\ UNCHANGED <<lcall, lResult>>
     ELSE /\ Return(c, "Failed to update inventory")
          /\ UNCHANGED inventory
  /\ UNCHANGED <<transactions, items, ledgerFrame>>

\* addToInventory: logTransaction(existing.id, 'add', ...) and the return.
AddLog(c) ==
  /\ lpc[c] = "add_log"
  /\ transactions' = logTransaction(lcall[c].id, "add", lcall[c].delta,
                                    lcall[c].before, lcall[c].after)
  /\ Return(c, "ok")
  /\ UNCHANGED <<inventory, items, ledgerFrame>>

\* addToInventory: the insert of a new row.
AddInsert(c) ==
  /\ lpc[c] = "add_insert"
  /\ LET input == lcall[c].input[1]
         row   == [id |-> Cardinality(inventory) + 1, user_id |-> CurrentUser,
                   name |-> input.name, unit |-> input.unit, quantity |-> input.quantity,
                   min_quantity |-> input.min_quantity, aisle |-> input.aisle]
     IN  IF /\ Len(row.name) >= 1
            /\ QuantityCheck(row.quantity)
            /\ row.min_quantity >= 0
            /\ unique_inventory_item(inventory, row)
         THEN /\ inventory' = inventory \cup {row}
              /\ lpc' = [lpc EXCEPT ![c] = "add_insert_log"]
              /\ lcall' = [lcall EXCEPT ![c].id = row.id]
              /\ UNCHANGED lResult
         ELSE /\ Return(c, "Failed to add to inventory")
              /\ UNCHANGED inventory
  /\ UNCHANGED <<transactions, items, ledgerFrame>>

\* addToInventory: logTransaction(data.id, 'add', input.quantity, 0, input.quantity).
AddInsertLog(c) ==
  /\ lpc[c] = "add_insert_log"
  /\ transactions' = logTransaction(lcall[c].id, "add", lcall[c].delta, 0, lcall[c].delta)
  /\ Return(c, "ok")
  /\ UNCHANGED <<inventory, items, ledgerFrame>>

\* Mutant of NewQuantityAfterRemove: a removal larger than the stock is dropped.
NewQuantityRefusingExcess(current, quantity) ==
  IF quantity > current THEN current ELSE current - quantity

\* removeFromStock: Math.max(0, current.quantity - quantity).
NewQuantityAfterRemove(current, quantity) == Max(0, current - quantity)

\* removeFromStock, up to the answer of getInventoryItem(id).
RemoveRead(c, id, quantity) ==
  /\ CanStart(c)
  /\ LET current == getInventoryItem(id)
     IN  IF current = <<>>
         THEN /\ lResult' = [lResult EXCEPT ![c] = "Item not found"]
              /\ UNCHANGED <<lpc, lcall>>
         ELSE /\ lpc' = [lpc EXCEPT ![c] = "remove_update"]
              /\ lcall' = [lcall EXCEPT ![c] =
                   [op |-> "remove", id |-> id, delta |-> quantity,
                    before |-> current[1].quantity,
                    after |-> NewQuantityAfterRemove(current[1].quantity, quantity),
                    input |-> <<>>]]
              /\ UNCHANGED lResult
  /\ UNCHANGED <<inventory, transactions, items, ledgerFrame>>

\* removeFromStock: the update to newQuantity.
RemoveUpdate(c) ==
  /\ lpc[c] = "remove_update"
  /\ IF getInventoryItem(lcall[c].id) # <<>> /\ QuantityCheck(lcall[c].after)
     THEN /\ inventory' = UpdateQuantity(inventory, lcall[c].id, lcall[c].after)
          /\ lpc' = [lpc EXCEPT ![c] = "remove_log"]
          /\ UNCHANGED <<lcall, lResult>>
     ELSE /\ Return(c, "Failed to remove from stock")
          /\ UNCHANGED inventory
  /\ UNCHANGED <<transactions, items, ledgerFrame>>

\* removeFromStock: logTransaction(id, 'remove', -quantity, ...) and the return.
RemoveLog(c) ==
  /\ lpc[c] = "remove_log"
  /\ transactions' = logTransaction(lcall[c].id, "remove", -lcall[c].delta,
                                    lcall[c].before, lcall[c].after)
  /\ Return(c, "ok")
  /\ UNCHANGED <<inventory, items, ledgerFrame>>

\* handleQuickAdjust(item, delta) on a row of the component's items state,
\* and updateInventoryItem(item.id, { quantity: newQty }) up to the answer
\* of getInventoryItem(id).
QuickAdjustRead(c, item, delta) ==
  /\ CanStart(c)
  /\ item \in items[c]
  /\ LET newQty  == Max(0, item.quantity + delta)
         current == getInventoryItem(item.id)
     IN  IF current = <<>>
         THEN /\ lpc' = [lpc EXCEPT ![c] = "load"]
              /\ lResult' = [lResult EXCEPT ![c] = "Item not found"]
              /\ UNCHANGED lcall
         ELSE /\ lpc' = [lpc EXCEPT ![c] = "adjust_update"]
              /\ lcall' = [lcall EXCEPT ![c] =
                   [op |-> "adjust", id |-> item.id, delta |-> delta,
                    before |-> current[1].quantity, after |-> newQty, input |-> <<>>]]
              /\ UNCHANGED lResult
  /\ UNCHANGED <<inventory, transactions, items, ledgerFrame>>

\* updateInventoryItem: the update with updateData.
QuickAdjustUpdate(c) ==
  /\ lpc[c] = "adjust_update"
  /\ IF getInventoryItem(lcall[c].id) # <<>> /\ QuantityCheck(lcall[c].after)
     THEN /\ inventory' = UpdateQuantity(inventory, lcall[c].id, lcall[c].after)
          /\ lpc' = [lpc EXCEPT ![c] = "adjust_log"]
          /\ UNCHANGED <<lcall, lResult>>
     ELSE /\ lpc' = [lpc EXCEPT ![c] = "load"]
          /\ lcall' = [lcall EXCEPT ![c] = NoCall]
          /\ lResult' = [lResult EXCEPT ![c] = "Failed to update item"]
          /\ UNCHANGED inventory
  /\ UNCHANGED <<transactions, items, ledgerFrame>>

\* updateInventoryItem: the log of a changed quantity, and the return to
\* handleQuickAdjust.
QuickAdjustLog(c) ==
  /\ lpc[c] = "adjust_log"
  /\ LET diff == lcall[c].after - lcall[c].before
     IN  transactions' =
           IF lcall[c].after # lcall[c].before
           THEN logTransaction(lcall[c].id, IF diff > 0 THEN "add" ELSE "remove", diff,
                               lcall[c].before, lcall[c].after)
           ELSE transactions
  /\ lpc' = [lpc EXCEPT ![c] = "load"]
  /\ lcall' = [lcall EXCEPT ![c] = NoCall]
  /\ lResult' = [lResult EXCEPT ![c] = "ok"]
  /\ UNCHANGED <<inventory, items, ledgerFrame>>

\* logTransaction when its insert request fails: the helper does not read
\* the answer of the insert and catches what it throws, so the caller
\* returns as after a successful log.
LogFailed(c) ==
  /\ lpc[c] \in {"add_log", "add_insert_log", "remove_log", "adjust_log"}
  /\ lpc' = [lpc EXCEPT ![c] = IF lpc[c] = "adjust_log" THEN "load" ELSE "idle"]
  /\ lcall' = [lcall EXCEPT ![c] = NoCall]
  /\ lResult' = [lResult EXCEPT ![c] = "ok"]
  /\ UNCHANGED <<inventory, transactions, items, ledgerFrame>>

\* What getInventoryItem(id) returns to its caller.
NullItem  == "{ item: null, error: null }"
FoundItem == "{ item, error: null }"

\* getInventoryItem(id) called by a client.
GetItem(c, id) ==
  /\ lpc[c] = "idle"
  /\ lResult' = [lResult EXCEPT ![c] =
                   IF getInventoryItem(id) = <<>> THEN NullItem ELSE FoundItem]
  /\ UNCHANGED <<inventory, transactions, lpc, lcall, items, ledgerFrame>>

\* deleteInventoryItem(id): the row goes, and its transactions with it
\* (inventory_id ... ON DELETE CASCADE); deleting no row is no error.
deleteInventoryItem(c, id) ==
  /\ lpc[c] = "idle"
  /\ inventory' = {r \in inventory : ~(r.id = id /\ r.user_id = CurrentUser)}
  /\ transactions' = IF getInventoryItem(id) = <<>> THEN transactions
                     ELSE SelectSeq(transactions, LAMBDA t : t.inventory_id # id)
  /\ lResult' = [lResult EXCEPT ![c] = "ok"]
  /\ UNCHANGED <<lpc, lcall, items, ledgerFrame>>

\* loadItems(): when the component mounts (its items state is still empty)
\* and at the end of handleQuickAdjust.
loadItems(c) ==
  /\ lpc[c] = "load" \/ (lpc[c] = "idle" /\ items[c] = {})
  /\ items' = [items EXCEPT ![c] = {r \in inventory : r.user_id = CurrentUser}]
  /\ lpc' = [lpc EXCEPT ![c] = "idle"]
  /\ UNCHANGED <<inventory, transactions, lcall, lResult, ledgerFrame>>

\* deduct_meal_ingredients: the loop over the recipe's ingredients, each
\* matched with the first inventory row in the order the rows come.
RECURSIVE DeductLoop(_, _, _, _, _, _)
DeductLoop(ingredients, rowOrder, rows, txs, multiplier, p_planned_meal_id) ==
  IF ingredients = <<>> THEN [inventory |-> rows, transactions |-> txs]
  ELSE LET v_ingredient == Head(ingredients)
           needed  == ((IF v_ingredient.quantity = None THEN Units(1)
                        ELSE v_ingredient.quantity[1]) * multiplier[1]) \div multiplier[2]
           matches == {i \in 1..Len(rowOrder) :
                         \E r \in rows :
                           /\ r.id = rowOrder[i]
                           /\ r.user_id = CurrentUser
                           /\ toLowerCase(r.name) = toLowerCase(v_ingredient.name)
                           /\ r.unit = v_ingredient.unit}
       IN  IF matches = {}
           THEN DeductLoop(Tail(ingredients), rowOrder, rows, txs, multiplier, p_planned_meal_id)
           ELSE LET first == CHOOSE i \in matches : \A j \in matches : i <= j
                    v_inventory_item == CHOOSE r \in rows : r.id = rowOrder[first]
                    v_deduct_qty == Min(v_inventory_item.quantity, needed)
                IN  IF v_inventory_item.quantity > 0
                    THEN DeductLoop(Tail(ingredients), rowOrder,
                           UpdateQuantity(rows, v_inventory_item.id,
                                          v_inventory_item.quantity - v_deduct_qty),
                           Append(txs, [inventory_id |-> v_inventory_item.id,
                                        type |-> "meal_used", quantity |-> -v_deduct_qty,
                                        quantity_before |-> v_inventory_item.quantity,
                                        quantity_after |-> v_inventory_item.quantity - v_deduct_qty,
                                        planned_meal_id |-> p_planned_meal_id]),
                           multiplier, p_planned_meal_id)
                    ELSE DeductLoop(Tail(ingredients), rowOrder, rows, txs,
                                    multiplier, p_planned_meal_id)

\* deductMealIngredients(plannedMealId): one call of the stored function,
\* which runs in one transaction and locks each row it reads.
DeductMeal(c, p_planned_meal_id) ==
  /\ CanStart(c)
  /\ LET found == {m \in plannedMeals : m.id = p_planned_meal_id /\ m.user_id = CurrentUser
                                        /\ m.recipe_id \in DOMAIN recipes}
     IN  IF found = {}
         THEN /\ lResult' = [lResult EXCEPT ![c] = "Failed to deduct ingredients"]
              /\ UNCHANGED <<inventory, transactions>>
         ELSE LET pm == CHOOSE m \in found : TRUE
              IN  \E ingredients \in Perms(recipes[pm.recipe_id].ingredients),
                     rowOrder \in Perms({r.id : r \in inventory}) :
                    LET done == DeductLoop(ingredients, rowOrder, inventory, transactions,
                                           <<pm.servings, recipes[pm.recipe_id].base_servings>>,
                                           p_planned_meal_id)
                    IN  /\ inventory' = done.inventory
                        /\ transactions' = done.transactions
                        /\ lResult' = [lResult EXCEPT ![c] = "ok"]
  /\ UNCHANGED <<lpc, lcall, items, ledgerFrame>>

----------------------------------------------------------------------------
(* The planner service (services/planner.ts) over table planned_meals,     *)
(* called from two sessions of one user.  The row-level policies let a     *)
(* session see and change its own user's rows only.                        *)

Sessions  == {"s1", "s2"}
MealTypes == {"lunch", "dinner"}

\* getCurrentUserId() in each session.
SessionUser(s) == CurrentUser

\* The planned meals a run may insert.
MaxMeals == 2

NoInput == [recipe_id |-> <<>>, date |-> <<>>, meal_type |-> <<>>, servings |-> <<>>]

\* Mutant of unique_meal_slot: the table without the constraint.
no_unique_meal_slot(rows) == TRUE

\* CONSTRAINT unique_meal_slot UNIQUE (user_id, date, meal_type).
unique_meal_slot(rows) ==
  \A m, n \in rows :
    (m.user_id = n.user_id /\ m.date = n.date /\ m.meal_type = n.meal_type) => m.id = n.id

\* The insert of createPlannedMeal and what the call returns.  The row's
\* CHECK constraints are tested before the unique index, the foreign key
\* to recipes after it.
InsertPlannedMeal(s, input) ==
  LET mealInsert == [id |-> nextMealId, user_id |-> SessionUser(s),
                     recipe_id |-> input.recipe_id[1], date |-> input.date[1],
                     meal_type |-> input.meal_type[1],
                     servings |-> IF input.servings = <<>> THEN 1 ELSE input.servings[1]]
  IN  IF mealInsert.servings > 0 /\ ~unique_meal_slot(plannedMeals \cup {mealInsert})
      THEN /\ pResult' = [pResult EXCEPT ![s] =
                 [meal |-> 0, error |-> "A meal is already planned for this slot"]]
           /\ UNCHANGED <<plannedMeals, nextMealId>>
      ELSE IF mealInsert.servings > 0 /\ mealInsert.recipe_id \in DOMAIN recipes
      THEN /\ plannedMeals' = plannedMeals \cup {mealInsert}
           /\ nextMealId' = nextMealId + 1
           /\ pResult' = [pResult EXCEPT ![s] = [meal |-> mealInsert.id, error |-> "none"]]
      ELSE /\ pResult' = [pResult EXCEPT ![s] =
                 [meal |-> 0, error |-> "Failed to create planned meal"]]
           /\ UNCHANGED <<plannedMeals, nextMealId>>

plannerFrame == <<recipes, inventory, transactions, shoppingLists, shoppingListItems,
                  shopVars, ledgerVars, anonVars, formVars, pageVars, recipeVars>>

createPlannedMeal(s, input) ==
  /\ ppc[s] = "idle"
  /\ nextMealId <= MaxMeals
  /\ InsertPlannedMeal(s, input)
  /\ UNCHANGED <<ppc, pcall, plannerFrame>>

\* mealUpdate applied to a row.
ApplyUpdate(m, updates) ==
  [m EXCEPT !.recipe_id = IF updates.recipe_id = <<>> THEN @ ELSE updates.recipe_id[1],
            !.date      = IF updates.date = <<>> THEN @ ELSE updates.date[1],
            !.meal_type = IF updates.meal_type = <<>> THEN @ ELSE updates.meal_type[1],
            !.servings  = IF updates.servings = <<>> THEN @ ELSE updates.servings[1]]

updatePlannedMeal(s, id, updates) ==
  /\ ppc[s] = "idle"
  /\ updates # NoInput
  /\ LET own     == {m \in plannedMeals : m.id = id /\ m.user_id = SessionUser(s)}
         updated == {IF m \in own THEN ApplyUpdate(m, updates) ELSE m : m \in plannedMeals}
     IN  IF own = {}
         THEN /\ pResult' = [pResult EXCEPT ![s] =
                    [meal |-> 0, error |-> "Failed to update planned meal"]]
              /\ UNCHANGED plannedMeals
         ELSE IF (\A m \in updated : m.servings > 0) /\ ~unique_meal_slot(updated)
         THEN /\ pResult' = [pResult EXCEPT ![s] =
                    [meal |-> 0, error |-> "A meal is already planned for this slot"]]
              /\ UNCHANGED plannedMeals
         ELSE IF \A m \in updated : m.servings > 0 /\ m.recipe_id \in DOMAIN recipes
         THEN /\ plannedMeals' = updated
              /\ pResult' = [pResult EXCEPT ![s] = [meal |-> id, error |-> "none"]]
         ELSE /\ pResult' = [pResult EXCEPT ![s] =
                    [meal |-> 0, error |-> "Failed to update planned meal"]]
              /\ UNCHANGED plannedMeals
  /\ UNCHANGED <<ppc, pcall, nextMealId, plannerFrame>>

deletePlannedMeal(s, id) ==
  /\ ppc[s] = "idle"
  /\ plannedMeals' = {m \in plannedMeals : ~(m.id = id /\ m.user_id = SessionUser(s))}
  /\ pResult' = [pResult EXCEPT ![s] = [meal |-> 0, error |-> "none"]]
  /\ UNCHANGED <<ppc, pcall, nextMealId, plannerFrame>>

\* replaceMealInSlot: the delete of whatever the slot holds.
ReplaceDelete(s, input) ==
  /\ ppc[s] = "idle"
  /\ nextMealId <= MaxMeals
  /\ plannedMeals' = {m \in plannedMeals :
                        ~(m.user_id = SessionUser(s) /\ m.date = input.date[1]
                          /\ m.meal_type = input.meal_type[1])}
  /\ ppc' = [ppc EXCEPT ![s] = "replace_create"]
  /\ pcall' = [pcall EXCEPT ![s] = input]
  /\ UNCHANGED <<pResult, nextMealId, plannerFrame>>

\* replaceMealInSlot: return createPlannedMeal(input).
ReplaceCreate(s) ==
  /\ ppc[s] = "replace_create"
  /\ InsertPlannedMeal(s, pcall[s])
  /\ ppc' = [ppc EXCEPT ![s] = "idle"]
  /\ pcall' = [pcall EXCEPT ![s] = NoInput]
  /\ UNCHANGED plannerFrame

----------------------------------------------------------------------------
(* The services called from a browser without a session: getCurrentUserId  *)
(* resolves to null and auth.uid() is NULL in the database, so that no row *)
(* passes a policy user_id = auth.uid().  Each call is one step, since its *)
(* first request already ends it.                                          *)

\* auth.uid() of a request without a session: equal to no row's user_id.
NoUser == "anon"

\* The rows a policy USING (user_id = auth.uid()) lets the request see.
VisibleRows(rows, uid) == {r \in rows : r.user_id = uid}

\* The call returns result after sending the statements sent.
AnonReturn(result, sent) ==
  /\ aResult' = result
  /\ aRequests' = aRequests \cup sent
  /\ UNCHANGED <<dbVars, shopVars, ledgerVars, plannerVars, formVars, pageVars, recipeVars>>

\* generateShoppingList, replaceMealInSlot and addToInventory: if (!userId)
\* throw new Error('User must be authenticated').
AnonGenerateShoppingList == AnonReturn("User must be authenticated", {})
AnonReplaceMealInSlot    == AnonReturn("User must be authenticated", {})
AnonAddToInventory       == AnonReturn("User must be authenticated", {})

\* createPlannedMeal.
AnonCreatePlannedMeal ==
  AnonReturn("User must be authenticated to create planned meals", {})

\* updateInventoryItem(id, updates) and removeFromStock(id, quantity): no
\* getCurrentUserId(); getInventoryItem(id) selects from inventory, finds
\* no visible row and the call throws 'Item not found'.
AnonUpdateInventoryItem(id) ==
  /\ {r \in VisibleRows(inventory, NoUser) : r.id = id} = {}
  /\ AnonReturn("Item not found", {"select inventory"})

AnonRemoveFromStock(id) ==
  /\ {r \in VisibleRows(inventory, NoUser) : r.id = id} = {}
  /\ AnonReturn("Item not found", {"select inventory"})

\* deleteShoppingList(id): the delete matches no visible row, which is no
\* error: { success: true, error: null }.
AnonDeleteShoppingList(id) ==
  /\ \A k \in 1..Len(shoppingLists) :
       shoppingLists[k].id = id => shoppingLists[k].user_id # NoUser
  /\ AnonReturn("ok", {"delete shopping_lists"})

\* toggleShoppingListItemChecked(itemId, checked): the update matches no
\* visible row and .single() fails.
AnonToggleShoppingListItemChecked(itemId) ==
  /\ \A k \in 1..Len(shoppingLists) : shoppingLists[k].user_id # NoUser
  /\ AnonReturn("Failed to update item", {"update shopping_list_items"})

\* deductMealIngredients: deduct_meal_ingredients raises 'Not authenticated'
\* before its first statement.
AnonDeductMealIngredients ==
  AnonReturn("Failed to deduct ingredients: Not authenticated", {})

----------------------------------------------------------------------------
(* The restocking form (components/restocking/RestockingForm.tsx), shown   *)
(* for one shopping list in the browser of one client. Items are named by  *)
(* their position in shopping_list_items.                                  *)

\* The client whose browser shows the form.
FormClient == "c1"

\* list.items.filter(item => item.checked)
checkedItems(listId) ==
  {k \in 1..Len(shoppingListItems) :
     shoppingListItems[k].shopping_list_id = listId /\ shoppingListItems[k].checked}

\* item.quantity || 0
QuantityOrZero(quantity) == IF quantity = 0 THEN 0 ELSE quantity

\* The initializer of the quantities state.
InitialQuantities(listId) ==
  [k \in checkedItems(listId) |->
     [itemId            |-> k,
      name              |-> shoppingListItems[k].name,
      suggestedQuantity |-> QuantityOrZero(shoppingListItems[k].quantity),
      actualQuantity    |-> QuantityOrZero(shoppingListItems[k].quantity),
      unit              |-> shoppingListItems[k].unit,
      aisle             |-> shoppingListItems[k].aisle]]

\* The component is rendered for the list.
RestockingForm(listId) ==
  /\ fpc = "unmounted"
  /\ \E k \in 1..Len(shoppingLists) : shoppingLists[k].id = listId
  /\ quantities' = InitialQuantities(listId)
  /\ fpc' = "shown"
  /\ fEdited' = {}
  /\ UNCHANGED <<fTodo, fInventory, fProcessed>>
  /\ UNCHANGED <<dbVars, shopVars, ledgerVars, plannerVars, anonVars, pageVars, recipeVars>>

\* parseFloat(value) || 0, for a field left empty (None) or holding a number.
ParseFloatOrZero(value) == IF value = None THEN 0 ELSE value[1]

\* handleQuantityChange(itemId, value); the inputs are disabled while loading.
handleQuantityChange(itemId, value) ==
  /\ fpc = "shown"
  /\ itemId \in DOMAIN quantities
  /\ quantities' = [quantities EXCEPT ![itemId].actualQuantity = ParseFloatOrZero(value)]
  /\ fEdited' = fEdited \cup {itemId}
  /\ UNCHANGED <<fpc, fTodo, fInventory, fProcessed>>
  /\ UNCHANGED <<dbVars, shopVars, ledgerVars, plannerVars, anonVars, pageVars, recipeVars>>

\* handleSubmit, up to the call of listInventory(): the loop will visit
\* Object.values(quantities) of this render, in the order the page was
\* given the items.
handleSubmit ==
  /\ fpc = "shown"
  /\ fpc' = "list"
  /\ fTodo' \in Perms(DOMAIN quantities)
  /\ fProcessed' = {}
  /\ UNCHANGED <<quantities, fInventory, fEdited>>
  /\ UNCHANGED <<dbVars, shopVars, ledgerVars, plannerVars, anonVars, pageVars, recipeVars>>

\* handleSubmit: the answer of listInventory().
SubmitList ==
  /\ fpc = "list"
  /\ fInventory' = {r \in inventory : r.user_id = CurrentUser}
  /\ fpc' = "loop"
  /\ UNCHANGED <<quantities, fTodo, fProcessed, fEdited>>
  /\ UNCHANGED <<dbVars, shopVars, ledgerVars, plannerVars, anonVars, pageVars, recipeVars>>

\* if (quantityData.actualQuantity <= 0) continue
RECURSIVE SkipEmpty(_)
SkipEmpty(todo) ==
  IF todo = <<>> THEN <<>>
  ELSE IF quantities[Head(todo)].actualQuantity <= 0 THEN SkipEmpty(Tail(todo))
       ELSE todo

\* x || '' of a text that may be null.
OrEmpty(text) == IF text = NULL THEN <<>> ELSE text

\* `${name.toLowerCase()}|${(unit || '').toLowerCase()}`
InventoryKey(name, unit) == <<toLowerCase(name), toLowerCase(OrEmpty(unit))>>

\* String.prototype.replace(pattern, ''): the first occurrence is removed.
RECURSIVE RemoveFirst(_, _)
RemoveFirst(text, pattern) ==
  IF Len(text) < Len(pattern) THEN text
  ELSE IF SubSeq(text, 1, Len(pattern)) = pattern
       THEN SubSeq(text, Len(pattern) + 1, Len(text))
       ELSE <<Head(text)>> \o RemoveFirst(Tail(text), pattern)

\* x || undefined of a text that may be null; a field left undefined is
\* stored as NULL.
OrUndefined(text) == IF text = <<>> THEN NULL ELSE text

\* The argument of addToInventory for one visited item. inventoryMap.get(key)
\* is the last row of that key in the order of listInventory(); category is
\* not a column of the rows kept here.
FormInputs(quantityData) ==
  LET existing == {r \in fInventory :
                     InventoryKey(r.name, r.unit) =
                       InventoryKey(quantityData.name, quantityData.unit)}
  IN  IF existing # {}
      THEN {[name |-> existingItem.name, unit |-> existingItem.unit,
             quantity |-> quantityData.actualQuantity,
             min_quantity |-> existingItem.min_quantity,
             aisle |-> existingItem.aisle] : existingItem \in existing}
      ELSE {[name |-> quantityData.name, unit |-> OrUndefined(OrEmpty(quantityData.unit)),
             quantity |-> quantityData.actualQuantity,
             min_quantity |-> 0,
             aisle |-> OrUndefined(RemoveFirst(OrEmpty(quantityData.aisle), LowStockPrefix))]}

\* handleSubmit: the loop up to its next await addToInventory(...), or past
\* its end: setQuantities without the processed items, setSuccess(true).
SubmitNext ==
  /\ fpc = "loop"
  /\ LET rest == SkipEmpty(fTodo)
     IN  IF rest = <<>>
         THEN /\ quantities' = [k \in DOMAIN quantities \ fProcessed |-> quantities[k]]
              /\ fEdited' = fEdited \ fProcessed
              /\ fpc' = "shown"
              /\ fTodo' = <<>>
              /\ UNCHANGED ledgerVars
         ELSE /\ CanStart(FormClient)
              /\ \E input \in FormInputs(quantities[Head(rest)]) :
                   existingQuery(FormClient, input)
              /\ fTodo' = rest
              /\ fpc' = "await"
              /\ UNCHANGED <<quantities, fEdited, items, lResult>>
  /\ UNCHANGED <<fInventory, fProcessed>>
  /\ UNCHANGED <<dbVars, shopVars, plannerVars, anonVars, pageVars, recipeVars>>

\* handleSubmit: addToInventory has returned (its error is not looked at);
\* processedItems.push(quantityData.itemId).
SubmitAwait ==
  /\ fpc = "await"
  /\ lpc[FormClient] = "idle"
  /\ fProcessed' = fProcessed \cup {Head(fTodo)}
  /\ fTodo' = Tail(fTodo)
  /\ fpc' = "loop"
  /\ UNCHANGED <<quantities, fInventory, fEdited>>
  /\ UNCHANGED <<dbVars, shopVars, ledgerVars, plannerVars, anonVars, pageVars, recipeVars>>

----------------------------------------------------------------------------
(* The shopping-list page (pages/ShoppingListPage.tsx): the generate form   *)
(* and the Regenerate button of the selected list.  handleGenerate reads    *)
(* startDate and endDate of the render its caller belongs to.               *)

\* setStartDate / setEndDate from the two date inputs.
SetDates(startDate, endDate) ==
  /\ rpc = "idle"
  /\ pageDates' = [startDate |-> startDate, endDate |-> endDate]
  /\ UNCHANGED <<rpc, selectedList>>
  /\ UNCHANGED <<dbVars, shopVars, ledgerVars, plannerVars, anonVars, formVars, recipeVars>>

\* handleGenerate from the Generate button, up to the first await of
\* generateShoppingList(startDate, endDate).
handleGenerate ==
  /\ rpc = "idle"
  /\ GenBegin(pageDates.startDate, pageDates.endDate)
  /\ rpc' = "generating"
  /\ UNCHANGED <<pageDates, selectedList>>
  /\ UNCHANGED <<dbVars, ledgerVars, plannerVars, anonVars, formVars, recipeVars>>

\* handleGenerate after generateShoppingList has returned: setError, or
\* setSelectedList(list).
GenerateReturn ==
  /\ rpc \in {"generating", "regenerating"}
  /\ gpc = "idle"
  /\ rpc' = "idle"
  /\ selectedList' =
       IF gResult.error # "none" \/ gResult.list = 0 THEN selectedList
       ELSE LET list == CHOOSE l \in {shoppingLists[k] : k \in 1..Len(shoppingLists)} :
                          l.id = gResult.list
            IN  [id |-> list.id, start_date |-> list.start_date, end_date |-> list.end_date]
  /\ UNCHANGED pageDates
  /\ UNCHANGED <<dbVars, shopVars, ledgerVars, plannerVars, anonVars, formVars, recipeVars>>

\* deleteShoppingList(id): the delete on shopping_lists, filtered by the
\* policy, and the cascade to shopping_list_items.
DeleteList(id) ==
  LET deleted(l) == l.id = id /\ l.user_id = CurrentUser
      gone       == {shoppingLists[k].id : k \in {n \in 1..Len(shoppingLists) :
                                                    deleted(shoppingLists[n])}}
  IN  /\ shoppingLists' = SelectSeq(shoppingLists, LAMBDA l : ~deleted(l))
      /\ shoppingListItems' = SelectSeq(shoppingListItems,
                                        LAMBDA item : item.shopping_list_id \notin gone)

\* handleRegenerate, up to the answer of deleteShoppingList(selectedList.id).
handleRegenerate ==
  /\ rpc = "idle"
  /\ gpc = "idle"
  /\ selectedList.id # 0
  /\ DeleteList(selectedList.id)
  /\ rpc' = "deleted"
  /\ UNCHANGED <<pageDates, selectedList>>
  /\ UNCHANGED <<recipes, plannedMeals, inventory, transactions>>
  /\ UNCHANGED <<shopVars, ledgerVars, plannerVars, anonVars, formVars, recipeVars>>

\* handleRegenerate: setStartDate(selectedList.start_date),
\* setEndDate(selectedList.end_date), and handleGenerate() of the same
\* render, up to the first await of generateShoppingList.
RegenerateGenerate ==
  /\ rpc = "deleted"
  /\ pageDates' = [startDate |-> selectedList.start_date, endDate |-> selectedList.end_date]
  /\ GenBegin(pageDates.startDate, pageDates.endDate)
  /\ rpc' = "regenerating"
  /\ UNCHANGED selectedList
  /\ UNCHANGED <<dbVars, ledgerVars, plannerVars, anonVars, formVars, recipeVars>>

----------------------------------------------------------------------------
(* The recipe service (services/recipes.ts): createRecipe and updateRecipe, *)
(* called by the recipe page with the input RecipeForm builds.  A           *)
(* RecipeInput is [base_servings, ingredients]: base_servings 0 when the    *)
(* caller gave none, ingredients None when the caller gave none, else       *)
(* Some(set of ingredient records).  The other fields of the input (name,   *)
(* description, tags, ...) take no part in scaling.                         *)

\* The ids the database may give a new recipe.
RecipeIds == {"r1", "r2", "r3"}

\* RecipeForm.handleSubmit: base_servings: baseServings ? parseInt(baseServings, 10) : 4.
\* The field is a number input; None is the empty field.
RecipeFormInput(baseServings, ingredients) ==
  [base_servings |-> IF baseServings = None THEN 2 * 2 ELSE baseServings[1],
   ingredients   |-> Some(ingredients)]

\* recipeInsert of createRecipe, as the row the insert stores: the columns
\* the statement names, and the column default (base_servings INTEGER NOT
\* NULL DEFAULT 4) for those it does not name.
RecipeInsert(input) == [base_servings |-> 2 * 2, ingredients |-> {}]

\* recipeUpdate of updateRecipe applied to a stored row.
RecipeUpdate(row, updates) == row

\* createRecipe(input), up to the answer of getCurrentUserId.
CreateRecipeStart(input) ==
  /\ cpc = "idle"
  /\ RecipeIds \ DOMAIN recipes # {}
  /\ ccall' = [op |-> "create", id |-> "", input |-> input]
  /\ cpc' = "create_insert"
  /\ UNCHANGED <<cResult, dbVars>>
  /\ UNCHANGED <<shopVars, ledgerVars, plannerVars, anonVars, formVars, pageVars>>

\* The insert into recipes, .select().single(); without ingredients in the
\* input the function returns the row.
CreateRecipeInsert ==
  /\ cpc = "create_insert"
  /\ \E id \in RecipeIds \ DOMAIN recipes :
       /\ recipes' = recipes @@ (id :> RecipeInsert(ccall.input))
       /\ ccall' = [ccall EXCEPT !.id = id]
       /\ IF ccall.input.ingredients # None /\ ccall.input.ingredients[1] # {}
          THEN cpc' = "create_ingredients" /\ UNCHANGED cResult
          ELSE cpc' = "idle" /\ cResult' = [recipe |-> id, error |-> "none"]
  /\ UNCHANGED <<plannedMeals, inventory, transactions, shoppingLists, shoppingListItems>>
  /\ UNCHANGED <<shopVars, ledgerVars, plannerVars, anonVars, formVars, pageVars>>

\* The insert into ingredients; its failure is logged and the recipe is
\* returned without ingredients.
CreateRecipeIngredients ==
  /\ cpc = "create_ingredients"
  /\ \E ingredientsError \in BOOLEAN :
       recipes' = IF ingredientsError THEN recipes
                  ELSE [recipes EXCEPT ![ccall.id].ingredients = ccall.input.ingredients[1]]
  /\ cpc' = "idle"
  /\ cResult' = [recipe |-> ccall.id, error |-> "none"]
  /\ UNCHANGED ccall
  /\ UNCHANGED <<plannedMeals, inventory, transactions, shoppingLists, shoppingListItems>>
  /\ UNCHANGED <<shopVars, ledgerVars, plannerVars, anonVars, formVars, pageVars>>

\* updateRecipe(id, updates), up to the answer of the update on recipes,
\* .eq('id', id).select().single(): no row is an error.
UpdateRecipeRow(id, updates) ==
  /\ cpc = "idle"
  /\ ccall' = [op |-> "update", id |-> id, input |-> updates]
  /\ IF id \notin DOMAIN recipes
     THEN /\ cpc' = "idle"
          /\ cResult' = [recipe |-> "", error |-> "Failed to update recipe"]
          /\ UNCHANGED recipes
     ELSE /\ recipes' = [recipes EXCEPT ![id] = RecipeUpdate(recipes[id], updates)]
          /\ cpc' = IF updates.ingredients # None THEN "update_delete" ELSE "fetch_recipe"
          /\ UNCHANGED cResult
  /\ UNCHANGED <<plannedMeals, inventory, transactions, shoppingLists, shoppingListItems>>
  /\ UNCHANGED <<shopVars, ledgerVars, plannerVars, anonVars, formVars, pageVars>>

\* The delete of the recipe's ingredients.
UpdateRecipeDelete ==
  /\ cpc = "update_delete"
  /\ recipes' = [recipes EXCEPT ![ccall.id].ingredients = {}]
  /\ cpc' = IF ccall.input.ingredients[1] # {} THEN "update_insert" ELSE "fetch_recipe"
  /\ UNCHANGED <<ccall, cResult>>
  /\ UNCHANGED <<plannedMeals, inventory, transactions, shoppingLists, shoppingListItems>>
  /\ UNCHANGED <<shopVars, ledgerVars, plannerVars, anonVars, formVars, pageVars>>

\* The insert of the new ingredients; its answer is not looked at.
UpdateRecipeInsert ==
  /\ cpc = "update_insert"
  /\ \E ingredientsError \in BOOLEAN :
       recipes' = IF ingredientsError THEN recipes
                  ELSE [recipes EXCEPT ![ccall.id].ingredients = ccall.input.ingredients[1]]
  /\ cpc' = "fetch_recipe"
  /\ UNCHANGED <<ccall, cResult>>
  /\ UNCHANGED <<plannedMeals, inventory, transactions, shoppingLists, shoppingListItems>>
  /\ UNCHANGED <<shopVars, ledgerVars, plannerVars, anonVars, formVars, pageVars>>

\* getRecipeById(id): the select on recipes; no row returns recipe null.
FetchRecipe ==
  /\ cpc = "fetch_recipe"
  /\ IF ccall.id \in DOMAIN recipes
     THEN cpc' = "fetch_ingredients" /\ UNCHANGED cResult
     ELSE cpc' = "idle" /\ cResult' = [recipe |-> "", error |-> "none"]
  /\ UNCHANGED <<ccall, dbVars>>
  /\ UNCHANGED <<shopVars, ledgerVars, plannerVars, anonVars, formVars, pageVars>>

\* getRecipeById(id): the select on ingredients, and the return.
FetchIngredients ==
  /\ cpc = "fetch_ingredients"
  /\ cpc' = "idle"
  /\ cResult' = [recipe |-> ccall.id, error |-> "none"]
  /\ UNCHANGED <<ccall, dbVars>>
  /\ UNCHANGED <<shopVars, ledgerVars, plannerVars, anonVars, formVars, pageVars>>

----------------------------------------------------------------------------
(* The display of a list: groupItemsByAisle and isLowStockItem (shopping.ts) *)

AISLE_TRANSLATIONS ==
     (<<"p","r","o","d","u","c","e">> :> <<"F","r","u","i","t","s"," ","&"," ","L","é","g","u","m","e","s">>)
  @@ (<<"m","e","a","t">> :> <<"B","o","u","c","h","e","r","i","e">>)
  @@ (<<"d","a","i","r","y">> :> <<"P","r","o","d","u","i","t","s"," ","l","a","i","t","i","e","r","s">>)
  @@ (<<"b","a","k","e","r","y">> :> <<"B","o","u","l","a","n","g","e","r","i","e">>)
  @@ (<<"p","a","s","t","a">> :> <<"P","â","t","e","s"," ","&"," ","R","i","z">>)
  @@ (<<"g","r","a","i","n","s">> :> <<"C","é","r","é","a","l","e","s">>)
  @@ (<<"c","a","n","n","e","d">> :> <<"C","o","n","s","e","r","v","e","s">>)
  @@ (<<"f","r","o","z","e","n">> :> <<"S","u","r","g","e","l","é","s">>)
  @@ (<<"s","p","i","c","e","s">> :> <<"É","p","i","c","e","s">>)
  @@ (<<"c","o","n","d","i","m","e","n","t","s">> :> <<"C","o","n","d","i","m","e","n","t","s">>)
  @@ (<<"o","i","l","s">> :> <<"H","u","i","l","e","s">>)
  @@ (<<"b","e","v","e","r","a","g","e","s">> :> <<"B","o","i","s","s","o","n","s">>)
  @@ (<<"s","n","a","c","k","s">> :> <<"S","n","a","c","k","s">>)
  @@ (<<"i","n","t","e","r","n","a","t","i","o","n","a","l">> :> <<"P","r","o","d","u","i","t","s"," ","d","u"," ","m","o","n","d","e">>)
  @@ (<<"o","t","h","e","r">> :> <<"A","u","t","r","e">>)
  @@ (<<"a","s","i","a","n">> :> <<"A","s","i","a","t","i","q","u","e">>)
  @@ (<<"b","r","e","a","k","f","a","s","t">> :> <<"P","e","t","i","t","-","d","é","j","e","u","n","e","r">>)
  @@ (<<"d","e","l","i">> :> <<"T","r","a","i","t","e","u","r">>)

\* translateAisle(aisle): null for a missing or empty aisle.
translateAisle(aisle) ==
  IF aisle = NULL \/ aisle = <<>> THEN NULL
  ELSE Lookup(AISLE_TRANSLATIONS, toLowerCase(aisle))

\* aisle?.startsWith(prefix) ?? false
startsWith(text, prefix) ==
  /\ text # NULL
  /\ Len(text) >= Len(prefix)
  /\ SubSeq(text, 1, Len(prefix)) = prefix

isLowStockItem(item) == startsWith(item.aisle, LowStockPrefix)

Autre == <<"A","u","t","r","e">>

\* Mutant of AisleLabel: the prefix is not stripped.
AisleLabelOfStoredAisle(item) ==
  LET aisle == translateAisle(item.aisle)
  IN  IF aisle = NULL THEN Autre ELSE aisle

\* groupItemsByAisle: the key an item is filed under.
AisleLabel(item) ==
  LET rawAisle == IF startsWith(item.aisle, LowStockPrefix)
                  THEN RemoveFirst(item.aisle, LowStockPrefix)
                  ELSE item.aisle
      aisle    == translateAisle(rawAisle)
  IN  IF aisle = NULL THEN Autre ELSE aisle

\* groupItemsByAisle(items): aisle label -> the items filed under it.
groupItemsByAisle(listItems) ==
  [label \in {AisleLabel(listItems[i]) : i \in 1..Len(listItems)} |->
     SelectSeq(listItems, LAMBDA item : AisleLabel(item) = label)]

\* The state of the services nobody is calling.
IdleLedger ==
  /\ lpc = [c \in Clients |-> "idle"]
  /\ lcall = [c \in Clients |-> NoCall]
  /\ items = [c \in Clients |-> {}]
  /\ lResult = [c \in Clients |-> "none"]

\* No call made without a session yet.
IdleAnon ==
  /\ aResult = "none"
  /\ aRequests = {}

\* The shopping-list page is not open.
IdlePage ==
  /\ rpc = "idle"
  /\ pageDates = [startDate |-> 1, endDate |-> 1]
  /\ selectedList = [id |-> 0, start_date |-> 1, end_date |-> 1]

\* No call of the recipe service is in progress.
IdleRecipe ==
  /\ cpc = "idle"
  /\ ccall = [op |-> "none", id |-> "", input |-> [base_servings |-> 0, ingredients |-> None]]
  /\ cResult = [recipe |-> "", error |-> "none"]

\* The restocking page is not open.
IdleForm ==
  /\ fpc = "unmounted"
  /\ quantities = <<>>
  /\ fTodo = <<>>
  /\ fInventory = {}
  /\ fProcessed = {}
  /\ fEdited = {}

IdlePlanner ==
  /\ ppc = [s \in Sessions |-> "idle"]
  /\ pcall = [s \in Sessions |-> NoInput]
  /\ pResult = [s \in Sessions |-> [meal |-> 0, error |-> "none"]]
  /\ nextMealId = 1

----------------------------------------------------------------------------
(* The shopping-list specification: a store fixed at the start, and calls  *)
(* of generateShoppingList one after another.                              *)

Onion     == <<"O","n","i","o","n">>
oignon    == <<"o","i","g","n","o","n">>
Pates     == <<"P","â","t","e","s">>
piece     == <<"p","i","e","c","e">>
produce   == <<"p","r","o","d","u","c","e">>
pantry    == <<"p","a","n","t","r","y">>

\* Largest inventory quantity and min_quantity (whole units) at the start.
MaxStock == 2
MaxMin   == 2

Ingredient(name, quantity, unit, aisle) ==
  [name |-> name, quantity |-> quantity, unit |-> unit, aisle |-> aisle]

PlannedMeal(id, recipe_id, date, meal_type, servings) ==
  [id |-> id, user_id |-> CurrentUser, recipe_id |-> recipe_id, date |-> date,
   meal_type |-> meal_type, servings |-> servings]

InventoryRow(id, name, unit, quantity, min_quantity) ==
  [id |-> id, user_id |-> CurrentUser, name |-> name, unit |-> unit,
   quantity |-> quantity, min_quantity |-> min_quantity, aisle |-> pantry]

\* Recipe r1 has one ingredient, r2 has "oignon" (aisle other); meal m1
\* (date 1) plans r1, meal m2 (date 2) plans r2 or r3, a recipe the user
\* cannot see.
ShopStore(ingA, unitB, base1, servings1, recipe2, rows) ==
  /\ recipes = [r \in {"r1", "r2"} |->
                  IF r = "r1"
                  THEN [base_servings |-> base1, ingredients |-> {ingA}]
                  ELSE [base_servings |-> 2,
                        ingredients |-> {Ingredient(oignon, Some(Units(2)), unitB, OtherAisle)}]]
  /\ plannedMeals = {PlannedMeal(1, "r1", 1, "dinner", servings1),
                     PlannedMeal(2, recipe2, 2, "dinner", 1)}
  /\ inventory = rows

\* Stores that vary the recipes and the planned servings.
InitRecipes ==
  \E name \in {Onion, Pates}, quantity \in {None, Some(Units(200))}, unitA \in {NULL, piece},
     unitB \in {NULL, piece}, base1 \in {2, 4}, servings1 \in {2, 6}, recipe2 \in {"r2", "r3"},
     rows \in {{}, {InventoryRow(1, oignon, NULL, Units(1), 0)}} :
       ShopStore(Ingredient(name, quantity, unitA, produce), unitB, base1, servings1, recipe2, rows)

\* Stores that vary the inventory: one row "Onion" and at most one row "oignon".
InitInventory ==
  \E unitA \in {NULL, piece}, unit1 \in {NULL, piece}, servings1 \in {2, 6},
     q1 \in 0..MaxStock, min1 \in 0..MaxMin, q2 \in 0..MaxStock :
       ShopStore(Ingredient(Onion, None, unitA, produce), NULL, 4, servings1, "r2",
                 {InventoryRow(1, Onion, unit1, Units(q1), Units(min1))}
                 \cup (IF q2 = 0 THEN {} ELSE {InventoryRow(2, oignon, NULL, Units(q2), 0)}))

\* No list generated yet and no call of generateShoppingList running.
IdleShop ==
  /\ shoppingLists = <<>>
  /\ shoppingListItems = <<>>
  /\ gpc = "idle"
  /\ gArgs = [startDate |-> 1, endDate |-> 1, userId |-> CurrentUser]
  /\ gMeals = <<>>
  /\ inventoryMap = <<>>
  /\ aggregated = <<>>
  /\ gList = 0
  /\ gResult = [list |-> 0, items |-> <<>>, error |-> "none"]

InitShop ==
  /\ InitRecipes \/ InitInventory
  /\ transactions = <<>>
  /\ IdleShop
  /\ IdleLedger
  /\ IdlePlanner
  /\ IdleAnon
  /\ IdleForm
  /\ IdlePage
  /\ IdleRecipe

NextShop ==
  \/ \E startDate \in Dates, endDate \in Dates : GenStart(startDate, endDate)
  \/ FetchMeals
  \/ FetchInventory
  \/ Aggregate
  \/ Deduct
  \/ FoldLowStock
  \/ CreateList
  \/ CreateItems

SpecShop == InitShop /\ [][NextShop]_vars

----------------------------------------------------------------------------
(* The shopping-list specification over stores whose recipe r1 may use an  *)
(* ingredient named "Frais": the name passes the CHECK of the ingredients  *)
(* table, and normalizeIngredientName turns it into the empty string.      *)

Frais == <<"F","r","a","i","s">>

InitPartial ==
  /\ \E name \in {Onion, Frais}, servings1 \in {2, 6},
        rows \in {{}, {InventoryRow(1, Onion, NULL, Units(1), Units(1))}} :
       ShopStore(Ingredient(name, None, NULL, produce), NULL, 4, servings1, "r2", rows)
  /\ transactions = <<>>
  /\ IdleShop
  /\ IdleLedger
  /\ IdlePlanner
  /\ IdleAnon
  /\ IdleForm
  /\ IdlePage
  /\ IdleRecipe

SpecPartial == InitPartial /\ [][NextShop]_vars

----------------------------------------------------------------------------
(* The two generation paths: generateShoppingList and the stored function  *)
(* generate_shopping_list called on one store, which neither changes.      *)

InitPaths ==
  /\ \E name \in {Onion, oignon}, unitA \in {NULL, piece}, servings1 \in {2, 6},
        rows \in {{}, {InventoryRow(1, oignon, NULL, Units(1), 0)}} :
       ShopStore(Ingredient(name, None, unitA, OtherAisle), NULL, 4, servings1, "r2", rows)
  /\ transactions = <<>>
  /\ IdleShop
  /\ IdleLedger
  /\ IdlePlanner
  /\ IdleAnon
  /\ IdleForm
  /\ IdlePage
  /\ IdleRecipe

NextPaths ==
  \/ NextShop
  \/ \E startDate \in Dates, endDate \in Dates : generate_shopping_list(startDate, endDate)

SpecPaths == InitPaths /\ [][NextPaths]_vars

----------------------------------------------------------------------------
(* The ledger specification: one inventory row "Onion" at the start, a     *)
(* planned meal whose recipe uses "onion", and two clients calling the     *)
(* inventory service concurrently.                                         *)

onion == <<"o","n","i","o","n">>

\* The inputs of addToInventory: a name that matches the row, with the
\* row's unit or another one, a quantity added or (negative) taken back.
AddInputs ==
  {[name |-> onion, unit |-> uq[1], quantity |-> uq[2], min_quantity |-> 0, aisle |-> pantry] :
     uq \in {<<NULL, Units(1)>>, <<NULL, -Units(1)>>, <<piece, Units(1)>>}}

\* The quantities removeFromStock is asked to remove.
RemoveQuantities == {Units(1), Units(3)}

InitLedger ==
  /\ \E q \in 1..MaxStock, servings \in {3} :
       /\ recipes = [r \in {"r1"} |->
                       [base_servings |-> 2,
                        ingredients |-> {Ingredient(onion, None, NULL, produce)}]]
       /\ plannedMeals = {PlannedMeal(1, "r1", 1, "dinner", servings)}
       /\ inventory = {InventoryRow(1, Onion, NULL, Units(q), Units(1))}
  /\ transactions = <<>>
  /\ IdleShop
  /\ IdleLedger
  /\ IdlePlanner
  /\ IdleAnon
  /\ IdleForm
  /\ IdlePage
  /\ IdleRecipe

NextLedger ==
  \/ \E c \in Clients, input \in AddInputs : AddFind(c, input)
  \/ \E c \in Clients : AddUpdate(c)
  \/ \E c \in Clients : AddLog(c)
  \/ \E c \in Clients : AddInsert(c)
  \/ \E c \in Clients : AddInsertLog(c)
  \/ \E c \in Clients, id \in 1..2, quantity \in RemoveQuantities : RemoveRead(c, id, quantity)
  \/ \E c \in Clients : RemoveUpdate(c)
  \/ \E c \in Clients : RemoveLog(c)
  \/ \E c \in Clients : \E item \in items[c], delta \in {-Units(1), Units(1)} :
       QuickAdjustRead(c, item, delta)
  \/ \E c \in Clients : QuickAdjustUpdate(c)
  \/ \E c \in Clients : QuickAdjustLog(c)
  \/ \E c \in Clients : loadItems(c)
  \/ \E c \in Clients : DeductMeal(c, 1)

SpecLedger == InitLedger /\ [][NextLedger]_vars

----------------------------------------------------------------------------
(* The ledger with a transaction log that can fail: one client making the  *)
(* calls of the ledger specification one after another, while the stock is *)
(* within the range of the run, and logTransaction requests that do not    *)
(* reach the table.                                                        *)

StockInRange == \A r \in inventory : r.quantity <= Units(MaxStock)

\* The client whose calls the specification follows.
Caller == "c1"

NextLog ==
  \/ \E input \in AddInputs : StockInRange /\ AddFind(Caller, input)
  \/ AddUpdate(Caller)
  \/ AddLog(Caller)
  \/ AddInsert(Caller)
  \/ AddInsertLog(Caller)
  \/ \E id \in 1..2, quantity \in RemoveQuantities : RemoveRead(Caller, id, quantity)
  \/ RemoveUpdate(Caller)
  \/ RemoveLog(Caller)
  \/ \E item \in items[Caller], delta \in {-Units(1), Units(1)} :
       item.quantity <= Units(MaxStock) /\ QuickAdjustRead(Caller, item, delta)
  \/ QuickAdjustUpdate(Caller)
  \/ QuickAdjustLog(Caller)
  \/ loadItems(Caller)
  \/ DeductMeal(Caller, 1)
  \/ LogFailed(Caller)

SpecLog == InitLedger /\ [][NextLog]_vars

----------------------------------------------------------------------------
(* The planner specification: a plan that holds one meal of another user,  *)
(* and the sessions calling the planner service with valid values, on the  *)
(* meals the plan holds.                                                   *)

OtherUser == "u2"

\* The inputs of createPlannedMeal (servings left to the default) and of
\* replaceMealInSlot (handleDragEnd sends servings 2).
MealInputs(servings) ==
  {[recipe_id |-> <<"r1">>, date |-> <<date>>, meal_type |-> <<meal_type>>, servings |-> servings] :
     date \in Dates, meal_type \in MealTypes}

\* The updates of updatePlannedMeal: a move to date 2, a move to dinner, or
\* a change of servings.
MealUpdates ==
  {[NoInput EXCEPT !.date = <<2>>],
   [NoInput EXCEPT !.meal_type = <<"dinner">>],
   [NoInput EXCEPT !.servings = <<2>>]}

InitPlanner ==
  /\ recipes = [r \in {"r1"} |->
                  [base_servings |-> 4, ingredients |-> {Ingredient(Onion, None, NULL, produce)}]]
  /\ plannedMeals = {[id |-> 0, user_id |-> OtherUser, recipe_id |-> "r1", date |-> 1,
                      meal_type |-> "lunch", servings |-> 1]}
  /\ inventory = {}
  /\ transactions = <<>>
  /\ IdleShop
  /\ IdleLedger
  /\ IdlePlanner
  /\ IdleAnon
  /\ IdleForm
  /\ IdlePage
  /\ IdleRecipe

NextPlanner ==
  \/ \E s \in Sessions, input \in MealInputs(<<>>) : createPlannedMeal(s, input)
  \/ \E s \in Sessions, m \in plannedMeals, updates \in MealUpdates :
       updatePlannedMeal(s, m.id, updates)
  \/ \E s \in Sessions, m \in plannedMeals : deletePlannedMeal(s, m.id)
  \/ \E s \in Sessions, input \in MealInputs(<<2>>) : ReplaceDelete(s, input)
  \/ \E s \in Sessions : ReplaceCreate(s)

SpecPlanner == InitPlanner /\ [][NextPlanner]_vars

----------------------------------------------------------------------------
(* The drag-and-drop specification: the user's plan holds a meal at        *)
(* (date 1, lunch), and the sessions drop recipes on slots of date 1       *)
(* (handleDragEnd calls replaceMealInSlot).  One of the recipe cards a     *)
(* session still shows belongs to a recipe that is no longer in the        *)
(* recipes table, so the insert of its meal fails on the foreign key.      *)

DeletedRecipe == "r9"

DropInputs ==
  {[recipe_id |-> <<recipe_id>>, date |-> <<1>>, meal_type |-> <<meal_type>>,
    servings |-> <<2>>] : recipe_id \in {"r1", DeletedRecipe}, meal_type \in MealTypes}

InitReplace ==
  /\ recipes = [r \in {"r1"} |->
                  [base_servings |-> 4, ingredients |-> {Ingredient(Onion, None, NULL, produce)}]]
  /\ plannedMeals = {[id |-> 0, user_id |-> CurrentUser, recipe_id |-> "r1", date |-> 1,
                      meal_type |-> "lunch", servings |-> 1]}
  /\ inventory = {}
  /\ transactions = <<>>
  /\ IdleShop
  /\ IdleLedger
  /\ IdlePlanner
  /\ IdleAnon
  /\ IdleForm
  /\ IdlePage
  /\ IdleRecipe

NextReplace ==
  \/ \E s \in Sessions, input \in DropInputs : ReplaceDelete(s, input)
  \/ \E s \in Sessions : ReplaceCreate(s)

SpecReplace == InitReplace /\ [][NextReplace]_vars

----------------------------------------------------------------------------
(* Meal consumption: recipe r1 uses "onion" (no quantity, no unit) and     *)
(* "Pâtes" by the piece; the user's inventory holds a row "Onion" without  *)
(* unit and a row "Pâtes" with or without unit, another user's inventory   *)
(* holds a row "onion".  The clients call deductMealIngredients for the    *)
(* planned meal 1 and for meal 2, which does not exist.                    *)

InitMeal ==
  /\ \E q1 \in 0..MaxStock, q2 \in 0..MaxStock, unit2 \in {NULL, piece},
        servings \in {1, 3}, quantity \in {None, Some(Units(2))} :
       /\ recipes = [r \in {"r1"} |->
                       [base_servings |-> 2,
                        ingredients |-> {Ingredient(onion, None, NULL, produce),
                                         Ingredient(Pates, quantity, piece, pantry)}]]
       /\ plannedMeals = {PlannedMeal(1, "r1", 1, "dinner", servings)}
       /\ inventory = {InventoryRow(1, Onion, NULL, Units(q1), Units(1)),
                       InventoryRow(2, Pates, unit2, Units(q2), 0),
                       [InventoryRow(3, onion, NULL, Units(2), 0) EXCEPT !.user_id = OtherUser]}
  /\ transactions = <<>>
  /\ IdleShop
  /\ IdleLedger
  /\ IdlePlanner
  /\ IdleAnon
  /\ IdleForm
  /\ IdlePage
  /\ IdleRecipe

NextMeal == \E c \in Clients, p_planned_meal_id \in 1..2 : DeductMeal(c, p_planned_meal_id)

SpecMeal == InitMeal /\ [][NextMeal]_vars

----------------------------------------------------------------------------
(* Lookups: a store with one shopping list, one inventory row and one      *)
(* planned meal, where a client reads and changes rows by id, for ids      *)
(* that exist, that never existed (2) or that another client has deleted.  *)

InitLookup ==
  /\ recipes = [r \in {"r1"} |->
                  [base_servings |-> 2, ingredients |-> {Ingredient(onion, None, NULL, produce)}]]
  /\ plannedMeals = {PlannedMeal(1, "r1", 1, "dinner", 1)}
  /\ \E q \in 1..MaxStock : inventory = {InventoryRow(1, Onion, NULL, Units(q), Units(1))}
  /\ transactions = <<>>
  /\ shoppingLists = <<[id |-> 1, user_id |-> CurrentUser, start_date |-> 1, end_date |-> 1]>>
  /\ shoppingListItems =
       <<[shopping_list_id |-> 1, name |-> Pates, quantity |-> Units(1), unit |-> NULL,
          aisle |-> pantry, checked |-> FALSE],
         [shopping_list_id |-> 1, name |-> Onion, quantity |-> Units(1), unit |-> NULL,
          aisle |-> NULL, checked |-> FALSE]>>
  /\ gpc = "idle"
  /\ gArgs = [startDate |-> 1, endDate |-> 1, userId |-> CurrentUser]
  /\ gMeals = <<>>
  /\ inventoryMap = <<>>
  /\ aggregated = <<>>
  /\ gList = 0
  /\ gResult = [list |-> 0, items |-> <<>>, error |-> "none"]
  /\ IdleLedger
  /\ IdlePlanner
  /\ IdleAnon
  /\ IdleForm
  /\ IdlePage
  /\ IdleRecipe

\* The client that deletes rows under the caller's hands.
Deleter == "c2"

NextLookup ==
  \/ \E id \in 1..2 : GetListFetch(id)
  \/ GetListItems
  \/ \E id \in 1..2 : GetItem(Caller, id)
  \/ \E id \in 1..2 : RemoveRead(Caller, id, Units(1))
  \/ RemoveUpdate(Caller)
  \/ RemoveLog(Caller)
  \/ \E item \in items[Caller] : QuickAdjustRead(Caller, item, Units(1))
  \/ QuickAdjustUpdate(Caller)
  \/ QuickAdjustLog(Caller)
  \/ loadItems(Caller)
  \/ deleteInventoryItem(Deleter, 1)
  \/ \E p_planned_meal_id \in 1..2 : DeductMeal(Caller, p_planned_meal_id)

SpecLookup == InitLookup /\ [][NextLookup]_vars

----------------------------------------------------------------------------
(* The store of the lookup specification, used by a client with a session  *)
(* and by a browser without one.                                           *)

NextAnon ==
  \/ NextLookup
  \/ AnonGenerateShoppingList
  \/ AnonCreatePlannedMeal
  \/ AnonReplaceMealInSlot
  \/ AnonAddToInventory
  \/ \E id \in 1..2 : AnonUpdateInventoryItem(id)
  \/ \E id \in 1..2 : AnonRemoveFromStock(id)
  \/ \E id \in 1..2 : AnonDeleteShoppingList(id)
  \/ \E itemId \in 1..2 : AnonToggleShoppingListItemChecked(itemId)
  \/ AnonDeductMealIngredients

SpecAnon == InitLookup /\ [][NextAnon]_vars

----------------------------------------------------------------------------
(* New items: an inventory that holds no "onion" yet, or one counted by    *)
(* the piece, and two clients adding "onion" with and without unit.        *)

InitMerge ==
  /\ recipes = [r \in {"r1"} |->
                  [base_servings |-> 2, ingredients |-> {Ingredient(onion, None, NULL, produce)}]]
  /\ plannedMeals = {PlannedMeal(1, "r1", 1, "dinner", 1)}
  /\ inventory \in {{}, {InventoryRow(1, Onion, piece, Units(1), 0)}}
  /\ transactions = <<>>
  /\ IdleShop
  /\ IdleLedger
  /\ IdlePlanner
  /\ IdleAnon
  /\ IdleForm
  /\ IdlePage
  /\ IdleRecipe

NextMerge ==
  \/ \E c \in Clients, input \in AddInputs : AddFind(c, input)
  \/ \E c \in Clients : AddUpdate(c)
  \/ \E c \in Clients : AddLog(c)
  \/ \E c \in Clients : AddInsert(c)
  \/ \E c \in Clients : AddInsertLog(c)

SpecMerge == InitMerge /\ [][NextMerge]_vars

----------------------------------------------------------------------------
(* Restocking: a list of two items, each checked or not, an inventory that *)
(* holds one of them or nothing, and the quantities a user may type.       *)

FieldValues == {None, Some(0), Some(Units(1)), Some(Units(2))}

InitRestock ==
  /\ recipes = [r \in {"r1"} |->
                  [base_servings |-> 2, ingredients |-> {Ingredient(onion, None, NULL, produce)}]]
  /\ plannedMeals = {PlannedMeal(1, "r1", 1, "dinner", 1)}
  /\ inventory \in {{}, {InventoryRow(1, Onion, piece, Units(1), 0)}}
  /\ transactions = <<>>
  /\ shoppingLists = <<[id |-> 1, user_id |-> CurrentUser, start_date |-> 1, end_date |-> 1]>>
  /\ \E q \in 1..MaxStock, checked1, checked2 \in BOOLEAN :
       shoppingListItems =
         <<[shopping_list_id |-> 1, name |-> Pates, quantity |-> Units(q), unit |-> NULL,
            aisle |-> LowStockPrefix \o pantry, checked |-> checked1],
           [shopping_list_id |-> 1, name |-> onion, quantity |-> Units(1), unit |-> piece,
            aisle |-> produce, checked |-> checked2]>>
  /\ gpc = "idle"
  /\ gArgs = [startDate |-> 1, endDate |-> 1, userId |-> CurrentUser]
  /\ gMeals = <<>>
  /\ inventoryMap = <<>>
  /\ aggregated = <<>>
  /\ gList = 0
  /\ gResult = [list |-> 0, items |-> <<>>, error |-> "none"]
  /\ IdleLedger
  /\ IdlePlanner
  /\ IdleAnon
  /\ IdleForm
  /\ IdlePage
  /\ IdleRecipe

NextRestock ==
  \/ RestockingForm(1)
  \/ \E itemId \in 1..2, value \in FieldValues : handleQuantityChange(itemId, value)
  \/ handleSubmit
  \/ SubmitList
  \/ SubmitNext
  \/ SubmitAwait
  \/ AddUpdate(FormClient)
  \/ AddLog(FormClient)
  \/ AddInsert(FormClient)
  \/ AddInsertLog(FormClient)

SpecRestock == InitRestock /\ [][NextRestock]_vars

----------------------------------------------------------------------------
(* The page with one list of the user selected, for some date range, and   *)
(* some dates in the generate form.                                        *)

InitPage ==
  /\ \E servings1 \in {2, 6}, rows \in {{}, {InventoryRow(1, Onion, NULL, Units(1), Units(1))}} :
       ShopStore(Ingredient(Onion, None, NULL, produce), NULL, 4, servings1, "r2", rows)
  /\ transactions = <<>>
  /\ \E start \in Dates, end \in Dates :
       /\ start <= end
       /\ shoppingLists = <<[id |-> 1, user_id |-> CurrentUser,
                             start_date |-> start, end_date |-> end]>>
       /\ selectedList = [id |-> 1, start_date |-> start, end_date |-> end]
  /\ shoppingListItems =
       <<[shopping_list_id |-> 1, name |-> capitalizeFirst(oignon), quantity |-> Units(1),
          unit |-> NULL, aisle |-> produce, checked |-> FALSE]>>
  /\ \E startDate \in Dates, endDate \in Dates :
       pageDates = [startDate |-> startDate, endDate |-> endDate]
  /\ rpc = "idle"
  /\ gpc = "idle"
  /\ gArgs = [startDate |-> 1, endDate |-> 1, userId |-> CurrentUser]
  /\ gMeals = <<>>
  /\ inventoryMap = <<>>
  /\ aggregated = <<>>
  /\ gList = 0
  /\ gResult = [list |-> 0, items |-> <<>>, error |-> "none"]
  /\ IdleLedger
  /\ IdlePlanner
  /\ IdleAnon
  /\ IdleForm
  /\ IdleRecipe

NextPage ==
  \/ \E startDate \in Dates, endDate \in Dates : SetDates(startDate, endDate)
  \/ handleGenerate
  \/ GenerateReturn
  \/ handleRegenerate
  \/ RegenerateGenerate
  \/ FetchMeals
  \/ FetchInventory
  \/ Aggregate
  \/ Deduct
  \/ FoldLowStock
  \/ CreateList
  \/ CreateItems

SpecPage == InitPage /\ [][NextPage]_vars

----------------------------------------------------------------------------
(* Properties of the shopping-list pipeline                                *)

\* The planned meals of the running call's range whose recipe resolves,
\* paired with each ingredient of the recipe, read from the tables.
DemandPairs ==
  {pair \in plannedMeals \X UNION {recipes[r].ingredients : r \in DOMAIN recipes} :
     /\ pair[1].user_id = gArgs.userId
     /\ pair[1].date >= gArgs.startDate /\ pair[1].date <= gArgs.endDate
     /\ pair[1].recipe_id \in DOMAIN recipes
     /\ pair[2] \in recipes[pair[1].recipe_id].ingredients}

PairsOf(key, unit) ==
  {pair \in DemandPairs : /\ normalizeIngredientName(pair[2].name) = key
                          /\ normalizeUnit(pair[2].unit) = unit}

\* A common multiple of the base_servings of the stores.
CommonBase == 2 * 2

\* CommonBase times the demand the pairs contribute:
\* the sum of (quantity or 1) x servings x (CommonBase / base_servings).
RECURSIVE ScaledDemand(_)
ScaledDemand(pairs) ==
  IF pairs = {} THEN 0
  ELSE LET pair == CHOOSE x \in pairs : TRUE
           q    == IF pair[2].quantity = None THEN Units(1) ELSE pair[2].quantity[1]
       IN  q * pair[1].servings * (CommonBase \div recipes[pair[1].recipe_id].base_servings)
           + ScaledDemand(pairs \ {pair})

\* The sub-total of (key, unit) in a demand map, 0 when there is none.
SubTotal(agg, key, unit) ==
  LET i == IndexOfKey(agg, key)
      k == IF i = 0 THEN 0 ELSE IndexOfUnit(agg[i].quantities, unit)
  IN  IF k = 0 THEN 0 ELSE agg[i].quantities[k].quantity

AggKeys(agg)  == {agg[i].key : i \in 1..Len(agg)}
AggUnits(agg) == UNION {{agg[i].quantities[k].unit : k \in 1..Len(agg[i].quantities)} : i \in 1..Len(agg)}

DemandKeys  == {normalizeIngredientName(pair[2].name) : pair \in DemandPairs}
DemandUnits == {normalizeUnit(pair[2].unit) : pair \in DemandPairs}

\* The summed on-hand stock of exactly (key, unit), read from the table.
RECURSIVE SumQuantity(_)
SumQuantity(rows) ==
  IF rows = {} THEN 0
  ELSE LET row == CHOOSE x \in rows : TRUE
       IN  row.quantity + SumQuantity(rows \ {row})

StockOf(key, unit) ==
  SumQuantity({item \in inventory : /\ item.user_id = gArgs.userId
                                    /\ normalizeIngredientName(item.name) = key
                                    /\ normalizeUnit(item.unit) = unit})

StockCounter(map, key, unit) ==
  IF key \in DOMAIN map THEN MapGet(map[key], unit, 0) ELSE 0

\* C3 (netting): the step that nets demand against stock leaves, for every
\* (name, unit) sub-total D and the summed stock S of exactly that pair,
\* max(0, D - S) to buy; nothing negative or zero stays in the map; sub-totals
\* are not created; and the stock counter drops by min(D, S) at most and never
\* rises; stock held in another unit is not used.
C3_Netting ==
  [][(gpc = "deduct" /\ gpc' = "lowstock") =>
       /\ \A key \in AggKeys(aggregated) \cup AggKeys(aggregated'),
             unit \in AggUnits(aggregated) \cup AggUnits(aggregated') :
            LET D == SubTotal(aggregated, key, unit)
                S == StockOf(key, unit)
                before == StockCounter(inventoryMap, key, unit)
                after  == StockCounter(inventoryMap', key, unit)
            IN  /\ SubTotal(aggregated', key, unit) = Max(0, D - S)
                /\ before = S
                /\ after <= before
                /\ before - after <= Min(D, S)
       /\ \A i \in 1..Len(aggregated') :
            /\ aggregated'[i].quantities # <<>>
            /\ \A k \in 1..Len(aggregated'[i].quantities) :
                 aggregated'[i].quantities[k].quantity > 0]_vars

\* C3 witness: netting has run on a demand that exceeded a positive stock:
\* the counter of the pair is used up and a remainder is left to buy.
C3_Witness ==
  /\ gpc = "lowstock"
  /\ \E key \in AggKeys(aggregated), unit \in AggUnits(aggregated) :
       /\ StockOf(key, unit) > 0
       /\ StockCounter(inventoryMap, key, unit) = 0
       /\ SubTotal(aggregated, key, unit) > 0

\* C4 (scaling): when step 2 has run, every sub-total of the demand map is the
\* unrounded sum, over the planned meals of the range with a resolvable recipe
\* and their ingredients of that normalized name and unit, of
\* (quantity or 1) x servings / base_servings, and nothing else is in the map.
C4_Scaling ==
  gpc = "deduct" =>
    \A key \in AggKeys(aggregated) \cup DemandKeys,
       unit \in AggUnits(aggregated) \cup DemandUnits :
         SubTotal(aggregated, key, unit) * CommonBase = ScaledDemand(PairsOf(key, unit))

\* C4 witness: base_servings 4, quantity 200 and servings 6 gave a demand of 300.
C4_Witness ==
  /\ gpc = "deduct"
  /\ \E pair \in DemandPairs :
       /\ recipes[pair[1].recipe_id].base_servings = 4
       /\ pair[1].servings = 6
       /\ pair[2].quantity = Some(Units(200))
       /\ PairsOf(normalizeIngredientName(pair[2].name), normalizeUnit(pair[2].unit)) = {pair}
       /\ SubTotal(aggregated, normalizeIngredientName(pair[2].name),
                   normalizeUnit(pair[2].unit)) = Units(300)

\* C5 (merge by normalized name): when step 2 has run, the demand map has
\* exactly one group per normalized name of the range's ingredients, and each
\* group has exactly one sub-total per normalized unit of its ingredients.
C5_MergeByName ==
  gpc = "deduct" =>
    /\ AggKeys(aggregated) = DemandKeys
    /\ \A i, j \in 1..Len(aggregated) : aggregated[i].key = aggregated[j].key => i = j
    /\ \A i \in 1..Len(aggregated) :
         LET qs == aggregated[i].quantities
         IN  /\ \A k, l \in 1..Len(qs) : qs[k].unit = qs[l].unit => k = l
             /\ {qs[k].unit : k \in 1..Len(qs)} =
                  {normalizeUnit(pair[2].unit) :
                     pair \in {x \in DemandPairs :
                                 normalizeIngredientName(x[2].name) = aggregated[i].key}}
             /\ aggregated[i].name = capitalizeFirst(aggregated[i].key)

\* C5 witness: "Onion" (unit "piece") and "oignon" (unit null) of two recipes
\* of the range are one group with two sub-totals.
C5_Witness ==
  /\ gpc = "deduct"
  /\ \E a, b \in DemandPairs :
       /\ a[1].recipe_id # b[1].recipe_id
       /\ a[2].name = Onion /\ a[2].unit = piece
       /\ b[2].name = oignon /\ b[2].unit = NULL
  /\ Len(aggregated) = 1
  /\ aggregated[1].key = oignon
  /\ Len(aggregated[1].quantities) = 2

\* C6 (low-stock floor), as claimed: once the low-stock rows are folded in,
\* every inventory row with quantity <= min_quantity has, under its normalized
\* name and unit, a stock-driven sub-total of at least 1.
C6_LowStockFloor ==
  gpc = "list" =>
    \A item \in LowStockRows(gArgs.userId) :
       LET i == IndexOfKey(aggregated, normalizeIngredientName(item.name))
       IN  /\ i > 0
           /\ aggregated[i].isLowStock
           /\ SubTotal(aggregated, normalizeIngredientName(item.name),
                       normalizeUnit(item.unit)) >= Units(1)

\* The rows (name, quantity, unit, aisle) of a list.
ItemSet(listId) ==
  {[name |-> shoppingListItems[i].name, quantity |-> shoppingListItems[i].quantity,
    unit |-> shoppingListItems[i].unit, aisle |-> shoppingListItems[i].aisle] :
     i \in {k \in 1..Len(shoppingListItems) : shoppingListItems[k].shopping_list_id = listId}}

\* C7 (idempotent regeneration), as claimed: two lists generated for the same
\* date range from the unchanged store have equal item sets.
C7_Idempotent ==
  gpc = "idle" =>
    \A i, j \in 1..Len(shoppingLists) :
       (/\ shoppingLists[i].start_date = shoppingLists[j].start_date
        /\ shoppingLists[i].end_date = shoppingLists[j].end_date)
       => ItemSet(shoppingLists[i].id) = ItemSet(shoppingLists[j].id)

\* The rows of shopping_list_items that belong to a list.
ItemsOfList(listId) ==
  {k \in 1..Len(shoppingListItems) : shoppingListItems[k].shopping_list_id = listId}

\* C14 (no partial list): when generateShoppingList has returned a list
\* with error = null, the persisted header has its full item set: one row
\* for every (item, unit) entry the pipeline computed.
C14_NoPartialList ==
  (gpc = "idle" /\ gResult.list # 0 /\ gResult.error = "none") =>
    Cardinality(ItemsOfList(gResult.list)) = Len(ItemInserts(aggregated, gResult.list))

\* C15 (path equivalence): when generate_shopping_list runs for the date
\* range of the list generateShoppingList has just returned, on the same
\* store, the list it persists has the same item set (name, quantity, unit,
\* aisle) as that list.
C15_PathEquivalence ==
  [][(/\ gpc = "idle" /\ gpc' = "idle"
      /\ gResult.list # 0 /\ gResult.error = "none"
      /\ Len(shoppingLists') = Len(shoppingLists) + 1
      /\ shoppingLists'[Len(shoppingLists')].start_date = gArgs.startDate
      /\ shoppingLists'[Len(shoppingLists')].end_date = gArgs.endDate)
     => LET v_list_id == Len(shoppingLists) + 1
        IN  ItemSet(v_list_id)' = ItemSet(gResult.list)]_vars

----------------------------------------------------------------------------
(* Claims about the inventory ledger, checked under SpecLedger.            *)

StoredQuantity(rows, id) == (CHOOSE r \in rows : r.id = id).quantity

\* What a call's delta makes of a stored quantity q.
Applied(call, q) ==
  CASE call.op = "add"    -> q + call.delta
    [] call.op = "remove" -> Max(0, q - call.delta)
    [] call.op = "adjust" -> Max(0, q + call.delta)

\* The step in which client c writes the quantity it computed.
Writes(c) ==
  \/ lpc[c] = "add_update" /\ lpc'[c] = "add_log"
  \/ lpc[c] = "remove_update" /\ lpc'[c] = "remove_log"
  \/ lpc[c] = "adjust_update" /\ lpc'[c] = "adjust_log"

\* C1 (no lost update), as claimed: every write of a quantity leaves the
\* stored quantity changed by the operation's delta, so that the stored
\* quantity reflects the delta of every operation and no write discards a
\* change made since its operation read the quantity.
C1_NoLostUpdate ==
  [][\A c \in Clients :
       Writes(c) => StoredQuantity(inventory', lcall[c].id)
                      = Applied(lcall[c], StoredQuantity(inventory, lcall[c].id))]_vars

TransactionsOf(id) == {i \in 1..Len(transactions) : transactions[i].inventory_id = id}

\* C2 (ledger consistency), as claimed: every recorded transaction has
\* quantity_after - quantity_before = quantity, and once the calls have
\* returned, every item with a transaction stores the quantity_after of its
\* most recent transaction.
C2_LedgerConsistency ==
  /\ \A i \in 1..Len(transactions) :
       transactions[i].quantity_after - transactions[i].quantity_before
         = transactions[i].quantity
  /\ (\A c \in Clients : lpc[c] \in {"idle", "load"}) =>
       \A r \in inventory :
         TransactionsOf(r.id) # {} =>
           LET last == CHOOSE i \in TransactionsOf(r.id) : \A j \in TransactionsOf(r.id) : j <= i
           IN  r.quantity = transactions[last].quantity_after

\* C8 (removal floor): a removeFromStock asked to remove more than the
\* quantity it read stores 0, and the transaction it records is a 'remove'
\* whose quantity is minus the full requested amount, with quantity_before
\* the quantity the call read and quantity_after 0.
C8_RemovalFloor ==
  [][\A c \in Clients :
       (lcall[c].op = "remove" /\ lcall[c].delta > lcall[c].before) =>
         /\ (lpc[c] = "remove_update" /\ lpc'[c] # lpc[c]) =>
              /\ lpc'[c] = "remove_log"
              /\ StoredQuantity(inventory', lcall[c].id) = 0
         /\ (lpc[c] = "remove_log" /\ lpc'[c] # lpc[c]) =>
              /\ lpc'[c] = "idle" /\ lResult'[c] = "ok"
              /\ transactions' = Append(transactions,
                   [inventory_id |-> lcall[c].id, type |-> "remove",
                    quantity |-> -lcall[c].delta, quantity_before |-> lcall[c].before,
                    quantity_after |-> 0, planned_meal_id |-> 0])]_vars

\* C8 witness: 3 units were removed from an item that held less and was not
\* empty; the item is at 0 and the transaction says -3.
C8_Witness ==
  \E i \in 1..Len(transactions) :
    /\ transactions[i].type = "remove"
    /\ transactions[i].quantity = -Units(3)
    /\ transactions[i].quantity_before \in 1..(Units(3) - 1)
    /\ transactions[i].quantity_after = 0
    /\ i = Len(transactions)
    /\ StoredQuantity(inventory, transactions[i].inventory_id) = 0

\* C9 (quantity never negative): every inventory row holds a quantity >= 0,
\* whatever the clients' calls and their interleaving.
C9_NonNegative == \A r \in inventory : r.quantity >= 0

\* C9 witness: a removal larger than the stock has been clamped to 0 and an
\* addToInventory of a negative quantity has then been refused by the table.
C9_Witness ==
  /\ \E i \in 1..Len(transactions) :
       /\ transactions[i].type = "remove"
       /\ transactions[i].quantity_before + transactions[i].quantity < 0
  /\ \E c \in Clients : lResult[c] = "Failed to update inventory"
  /\ \E r \in inventory : r.quantity = 0

----------------------------------------------------------------------------
(* Claims about the planner, checked under SpecPlanner.                    *)

Conflict == "A meal is already planned for this slot"

\* The slot (user, date, meal_type) holds a meal other than the one with id.
Occupied(user, date, meal_type, id) ==
  \E m \in plannedMeals :
    m.user_id = user /\ m.date = date /\ m.meal_type = meal_type /\ m.id # id

\* The slot updatePlannedMeal(id, updates) moves the session's meal id to.
TargetsOccupied(s, id, updates) ==
  \E m \in plannedMeals :
    /\ m.id = id /\ m.user_id = SessionUser(s)
    /\ Occupied(m.user_id,
                IF updates.date = <<>> THEN m.date ELSE updates.date[1],
                IF updates.meal_type = <<>> THEN m.meal_type ELSE updates.meal_type[1],
                id)

\* C10 (slot uniqueness): no two planned meals share (user, date, meal
\* type) in any state, and a createPlannedMeal or updatePlannedMeal that
\* targets a slot another meal holds returns 'A meal is already planned for
\* this slot' and leaves planned_meals as it was.  (A call that changes
\* neither its session's result nor the table is a step that changes nothing.)
C10_SlotUniqueness ==
  /\ [](\A m, n \in plannedMeals :
          (m.user_id = n.user_id /\ m.date = n.date /\ m.meal_type = n.meal_type) => m = n)
  /\ [][\A s \in Sessions :
         \/ pResult'[s] = pResult[s] /\ plannedMeals' = plannedMeals
         \/ pResult'[s].error = Conflict /\ plannedMeals' = plannedMeals
         \/ /\ \A input \in MealInputs(<<>>) :
                 ~(/\ Occupied(SessionUser(s), input.date[1], input.meal_type[1], nextMealId)
                   /\ createPlannedMeal(s, input))
            /\ \A m \in plannedMeals, updates \in MealUpdates :
                 ~(TargetsOccupied(s, m.id, updates) /\ updatePlannedMeal(s, m.id, updates))]_vars

\* C10 witness: a call has returned the conflict error while the user's
\* plan holds a meal in the slot (date 1, lunch) that another user's meal
\* holds as well.
C10_Witness ==
  /\ \E s \in Sessions : pResult[s].error = Conflict
  /\ \E m, n \in plannedMeals :
       /\ m.user_id = CurrentUser /\ n.user_id = OtherUser
       /\ m.date = n.date /\ m.meal_type = n.meal_type

----------------------------------------------------------------------------
(* Properties of replaceMealInSlot                                         *)

\* A replaceMealInSlot call of some session on the slot has deleted and not
\* yet created.
ReplaceInFlight(date, meal_type) ==
  \E s \in Sessions :
    /\ ppc[s] = "replace_create"
    /\ pcall[s].date = <<date>> /\ pcall[s].meal_type = <<meal_type>>

\* C11 (atomic replace): the plan is changed through replaceMealInSlot
\* only, so the slot (date 1, lunch), occupied at the start, holds a meal
\* of the user whenever every replaceMealInSlot call on it has returned:
\* the new meal of a call that succeeded, or else the occupant the failed
\* calls found.  No call returns leaving the slot empty.
C11_AtomicReplace ==
  ~ReplaceInFlight(1, "lunch") => Occupied(CurrentUser, 1, "lunch", -1)

----------------------------------------------------------------------------
(* Properties of the ledger with a failing transaction log                 *)

\* The call of client c has written the quantity and is about to log.
LogPcs == {"add_log", "add_insert_log", "remove_log", "adjust_log"}

\* C12 (one transaction per mutation): when an add, remove or adjust call
\* that has changed the item's quantity returns, the step that returns has
\* appended exactly one transaction, for that item and with the quantity
\* the call wrote; no call returns with the quantity changed and no
\* transaction recorded, even when the insert of the transaction fails.
C12_OneTransactionPerMutation ==
  [][\A c \in Clients :
       (lpc[c] \in LogPcs /\ lpc'[c] \notin LogPcs /\ lcall[c].after # lcall[c].before)
         => /\ Len(transactions') = Len(transactions) + 1
            /\ transactions'[Len(transactions')].inventory_id = lcall[c].id
            /\ transactions'[Len(transactions')].quantity_after = lcall[c].after]_vars

\* C13 (per-item serialization): the transactions of each inventory item,
\* in the order they were committed, form a chain: each one's
\* quantity_before is the quantity_after of the one before it.
C13_TransactionChain ==
  \A r \in inventory :
    \A i, j \in TransactionsOf(r.id) :
      (i < j /\ \A k \in TransactionsOf(r.id) : ~(i < k /\ k < j))
        => transactions[j].quantity_before = transactions[i].quantity_after

----------------------------------------------------------------------------
(* Properties of meal consumption                                          *)

\* needed = (quantity or 1) x servings / base_servings.
MealNeeded(ingredient, pm) ==
  ((IF ingredient.quantity = None THEN Units(1) ELSE ingredient.quantity[1]) * pm.servings)
    \div recipes[pm.recipe_id].base_servings

\* The ingredients of the meal's recipe that inventory row r matches: same
\* name up to case, same unit or both without unit.
MatchingIngredients(r, pm) ==
  {i \in recipes[pm.recipe_id].ingredients :
     toLowerCase(i.name) = toLowerCase(r.name) /\ i.unit = r.unit}

\* C16 (meal consumption): a call of deduct_meal_ingredients for planned
\* meal 1 lowers every row of the caller that matches an ingredient and has
\* quantity > 0 by min(in stock, needed), appends for it one 'meal_used'
\* transaction linked to the meal with quantity = -deducted, leaves every
\* other row as it was, appends nothing else, and returns without error.
C16_MealConsumption ==
  [][\A c \in Clients :
       DeductMeal(c, 1) =>
         LET pm     == CHOOSE m \in plannedMeals : m.id = 1
             new    == SubSeq(transactions', Len(transactions) + 1, Len(transactions'))
             Hit(r) == /\ r.user_id = CurrentUser /\ r.quantity > 0
                       /\ MatchingIngredients(r, pm) # {}
         IN  /\ lResult'[c] = "ok"
             /\ SubSeq(transactions', 1, Len(transactions)) = transactions
             /\ Len(new) = Cardinality({r \in inventory : Hit(r)})
             /\ \A r \in inventory :
                  IF Hit(r)
                  THEN LET i        == CHOOSE x \in MatchingIngredients(r, pm) : TRUE
                           deducted == Min(r.quantity, MealNeeded(i, pm))
                       IN  /\ [r EXCEPT !.quantity = r.quantity - deducted] \in inventory'
                           /\ \E k \in 1..Len(new) :
                                new[k] = [inventory_id |-> r.id, type |-> "meal_used",
                                          quantity |-> -deducted,
                                          quantity_before |-> r.quantity,
                                          quantity_after |-> r.quantity - deducted,
                                          planned_meal_id |-> 1]
                  ELSE r \in inventory']_vars

\* C16 witness: one call has taken part of the stock of "Onion" and all of
\* the stock of "Pâtes", while the row "Pâtes" was too small for the need,
\* and the other user's row is as it was.
C16_Witness ==
  /\ Len(transactions) = 2
  /\ \E k, l \in 1..2 :
       /\ transactions[k].inventory_id = 1 /\ transactions[k].quantity_after > 0
       /\ transactions[l].inventory_id = 2 /\ transactions[l].quantity_after = 0
       /\ -transactions[l].quantity < Units(2)
       /\ transactions[l].type = "meal_used" /\ transactions[l].planned_meal_id = 1
  /\ \E r \in inventory : r.user_id = OtherUser /\ r.quantity = Units(2)

----------------------------------------------------------------------------
(* Properties of the lookups by id                                         *)

ItemMissing(id) == ~\E r \in inventory : r.id = id /\ r.user_id = CurrentUser

ListMissing(id) ==
  ~\E k \in 1..Len(shoppingLists) :
     shoppingLists[k].id = id /\ shoppingLists[k].user_id = CurrentUser

MealMissing(id) == ~\E m \in plannedMeals : m.id = id /\ m.user_id = CurrentUser

\* The call of client c has returned message and changed neither the
\* inventory nor the transaction log.
Refused(c, message) ==
  /\ lResult'[c] = message
  /\ lpc'[c] \in {"idle", "load"}
  /\ inventory' = inventory
  /\ transactions' = transactions

\* C17 (not found): a read by an id that matches no row returns a null
\* result and no error (getShoppingList, getInventoryItem); removeFromStock
\* and updateInventoryItem on a missing item return 'Item not found', and
\* deductMealIngredients on a missing planned meal returns its failure,
\* each leaving the inventory and the transaction log as they were.
C17_NotFound ==
  [][/\ \A id \in 1..2 :
          (ListMissing(id) /\ GetListFetch(id))
            => gResult' = [list |-> 0, items |-> <<>>, error |-> "none"] /\ gpc' = "idle"
     /\ \A c \in Clients, id \in 1..2 :
          /\ (ItemMissing(id) /\ GetItem(c, id)) => lResult'[c] = NullItem
          /\ (ItemMissing(id) /\ RemoveRead(c, id, Units(1))) => Refused(c, "Item not found")
          /\ (MealMissing(id) /\ DeductMeal(c, id))
               => Refused(c, "Failed to deduct ingredients")
     /\ \A c \in Clients :
          \A item \in items[c] :
            (ItemMissing(item.id) /\ QuickAdjustRead(c, item, Units(1)))
              => Refused(c, "Item not found")]_vars

\* C17 witness: the caller was refused a change of the item that the other
\* client had deleted after the caller had removed from it; the deleted
\* row and its transaction are gone and nothing else was written.
C17_Witness ==
  /\ inventory = {}
  /\ transactions = <<>>
  /\ lResult[Deleter] = "ok"
  /\ lResult[Caller] = "Item not found"
  /\ lpc[Caller] = "idle"

----------------------------------------------------------------------------
(* Properties of the calls without a session                               *)

AuthenticationFailures ==
  {"User must be authenticated", "User must be authenticated to create planned meals",
   "Failed to deduct ingredients: Not authenticated"}

\* C18 (fail fast): every mutating call made without a session has
\* returned an authentication failure, and none has sent a statement to a
\* table.
C18_FailFast ==
  /\ aResult \in {"none"} \cup AuthenticationFailures
  /\ aRequests = {}

----------------------------------------------------------------------------
(* Properties of the inventory merge key                                   *)

\* C19 (merge key): no two inventory rows of one user have the same name
\* up to case and the same unit, two missing units counting as the same.
C19_MergeKey ==
  \A r1, r2 \in inventory :
    (/\ r1.user_id = r2.user_id
     /\ toLowerCase(r1.name) = toLowerCase(r2.name)
     /\ r1.unit = r2.unit)
      => r1.id = r2.id

----------------------------------------------------------------------------
(* Properties of the restocking form                                       *)

\* C20 (restocking form): while the form is shown, every field the user has
\* not typed into holds zero, and handleSubmit calls addToInventory only
\* for items whose field the user has typed into.
C20_OnlyEnteredQuantities ==
  /\ fpc = "shown" =>
       \A k \in DOMAIN quantities \ fEdited : quantities[k].actualQuantity = 0
  /\ fpc = "await" => Head(fTodo) \in fEdited

----------------------------------------------------------------------------
(* Restocking into an inventory that holds "Onion" by the piece once, or   *)
(* under two spellings ("Onion" and "onion"), which the unique constraint  *)
(* allows and for which addToInventory's lookup finds no single row.       *)

InitRestockTwice ==
  /\ recipes = [r \in {"r1"} |->
                  [base_servings |-> 2, ingredients |-> {Ingredient(onion, None, NULL, produce)}]]
  /\ plannedMeals = {PlannedMeal(1, "r1", 1, "dinner", 1)}
  /\ inventory \in {{InventoryRow(1, Onion, piece, Units(1), 0)},
                    {InventoryRow(1, Onion, piece, Units(1), 0),
                     InventoryRow(2, onion, piece, Units(1), 0)}}
  /\ transactions = <<>>
  /\ shoppingLists = <<[id |-> 1, user_id |-> CurrentUser, start_date |-> 1, end_date |-> 1]>>
  /\ shoppingListItems =
        <<[shopping_list_id |-> 1, name |-> Pates, quantity |-> Units(1), unit |-> NULL,
           aisle |-> LowStockPrefix \o pantry, checked |-> TRUE],
          [shopping_list_id |-> 1, name |-> onion, quantity |-> Units(1), unit |-> piece,
           aisle |-> produce, checked |-> TRUE]>>
  /\ gpc = "idle"
  /\ gArgs = [startDate |-> 1, endDate |-> 1, userId |-> CurrentUser]
  /\ gMeals = <<>>
  /\ inventoryMap = <<>>
  /\ aggregated = <<>>
  /\ gList = 0
  /\ gResult = [list |-> 0, items |-> <<>>, error |-> "none"]
  /\ IdleLedger
  /\ IdlePlanner
  /\ IdleAnon
  /\ IdleForm
  /\ IdlePage
  /\ IdleRecipe

SpecRestockTwice == InitRestockTwice /\ [][NextRestock]_vars

----------------------------------------------------------------------------
(* The shopping-list specification over stores whose inventory holds the   *)
(* ingredient of recipe r1 under the name a list row shows for it: the     *)
(* capitalized key, as the restocking form adds it.                        *)

FreshOnion == <<"f","r","e","s","h"," ","o","n","i","o","n">>
Eggs       == <<"E","g","g","s">>

IngredientNames == {Onion, oignon, Pates, FreshOnion, Eggs}

InitNames ==
  /\ \E name \in IngredientNames, servings1 \in {2, 6}, recipe2 \in {"r2", "r3"}, q \in 1..2 :
       ShopStore(Ingredient(name, Some(Units(2)), NULL, produce), NULL, 2, servings1, recipe2,
                 {InventoryRow(1, capitalizeFirst(normalizeIngredientName(name)), NULL,
                               Units(q), 0)})
  /\ transactions = <<>>
  /\ IdleShop
  /\ IdleLedger
  /\ IdlePlanner
  /\ IdleAnon
  /\ IdleForm
  /\ IdlePage
  /\ IdleRecipe

SpecNames == InitNames /\ [][NextShop]_vars

----------------------------------------------------------------------------
(* The recipe page: recipe r1 stored for 2 or 4 servings, and the form     *)
(* submitted with 2, 6 or no servings typed, to create a recipe or to      *)
(* update r1 or a recipe that is gone.                                      *)

RecipeInputs ==
  {RecipeFormInput(baseServings, ingredients) :
     baseServings \in {None, Some(2), Some(6)},
     ingredients \in {{}, {Ingredient(Onion, Some(Units(2)), NULL, produce)}}}

InitRecipe ==
  /\ \E base1 \in {2, 4} :
       recipes = [r \in {"r1"} |->
                    [base_servings |-> base1,
                     ingredients |-> {Ingredient(Pates, Some(Units(200)), NULL, pantry)}]]
  /\ plannedMeals = {PlannedMeal(1, "r1", 1, "dinner", 2)}
  /\ inventory = {}
  /\ transactions = <<>>
  /\ shoppingLists = <<>>
  /\ shoppingListItems = <<>>
  /\ IdleShop
  /\ IdleLedger
  /\ IdlePlanner
  /\ IdleAnon
  /\ IdleForm
  /\ IdlePage
  /\ IdleRecipe

NextRecipe ==
  \/ \E input \in RecipeInputs : CreateRecipeStart(input)
  \/ CreateRecipeInsert
  \/ CreateRecipeIngredients
  \/ \E id \in {"r1", DeletedRecipe}, updates \in RecipeInputs : UpdateRecipeRow(id, updates)
  \/ UpdateRecipeDelete
  \/ UpdateRecipeInsert
  \/ FetchRecipe
  \/ FetchIngredients

SpecRecipe == InitRecipe /\ [][NextRecipe]_vars

----------------------------------------------------------------------------
(* The shopping-list specification over stores whose two recipes use the   *)
(* same ingredient, each in the singular or the plural form of one unit of *)
(* the unit table.                                                          *)

\* The keys of UNIT_NORMALIZATIONS that are in the table with and without
\* a final "s": <<singular, plural>>.
UnitPlurals ==
  {<<unit, unit \o <<"s">>>> : unit \in {k \in DOMAIN UNIT_NORMALIZATIONS :
                                           k \o <<"s">> \in DOMAIN UNIT_NORMALIZATIONS}}

InitUnits ==
  /\ \E forms \in UnitPlurals, servings1 \in {2, 6} :
     \E unitA \in {forms[1], forms[2]}, unitB \in {forms[1], forms[2]} :
       ShopStore(Ingredient(Onion, Some(Units(2)), unitA, produce), unitB, 2, servings1, "r2", {})
  /\ transactions = <<>>
  /\ IdleShop
  /\ IdleLedger
  /\ IdlePlanner
  /\ IdleAnon
  /\ IdleForm
  /\ IdlePage
  /\ IdleRecipe

SpecUnits == InitUnits /\ [][NextShop]_vars

----------------------------------------------------------------------------
(* Properties of the low-stock folding and of the rows of a generated list, *)
(* checked under SpecShop.                                                 *)

\* max(0, min_quantity - quantity) of the stored row, 1 when that is 0.
Replenishment(item) ==
  LET toBuy == Max(0, item.min_quantity - item.quantity)
  IN  IF toBuy = 0 THEN Units(1) ELSE toBuy

RECURSIVE SumReplenishment(_)
SumReplenishment(rows) ==
  IF rows = {} THEN 0
  ELSE LET row == CHOOSE x \in rows : TRUE
       IN  Replenishment(row) + SumReplenishment(rows \ {row})

\* The low-stock rows of the user under a normalized name and unit.
LowStockOf(key, unit) ==
  {item \in LowStockRows(gArgs.userId) :
     normalizeIngredientName(item.name) = key /\ normalizeUnit(item.unit) = unit}

\* C21 (replenishment quantity), as claimed: the step that folds the
\* low-stock rows in raises every (name, unit) sub-total by the sum, over
\* the low-stock rows of that name and unit, of max(0, min_quantity - stored
\* quantity), taken as 1 when it is 0, whatever the netting did before.
C21_Replenishment ==
  [][(gpc = "lowstock" /\ gpc' = "list") =>
       \A key \in AggKeys(aggregated') \cup {normalizeIngredientName(r.name) : r \in inventory},
          unit \in AggUnits(aggregated') \cup {normalizeUnit(r.unit) : r \in inventory} :
            SubTotal(aggregated', key, unit) - SubTotal(aggregated, key, unit)
              = SumReplenishment(LowStockOf(key, unit))]_vars

\* C22 (positive quantities): every row of shopping_list_items has a
\* quantity > 0; once the netting has run, the demand map has no sub-total
\* at or below 0 and no name without sub-totals, a sub-total whose demand
\* the stock of its name and unit covers is gone, and so it stays when the
\* low-stock rows are folded in.
C22_PositiveQuantities ==
  /\ \A k \in 1..Len(shoppingListItems) : shoppingListItems[k].quantity > 0
  /\ gpc \in {"lowstock", "list", "items"} =>
       \A i \in 1..Len(aggregated) :
         /\ aggregated[i].quantities # <<>>
         /\ \A k \in 1..Len(aggregated[i].quantities) :
              aggregated[i].quantities[k].quantity > 0
  /\ gpc = "lowstock" =>
       \A key \in DemandKeys, unit \in DemandUnits :
         ScaledDemand(PairsOf(key, unit)) <= StockOf(key, unit) * CommonBase
           => SubTotal(aggregated, key, unit) = 0

\* C22 witness: a list was generated whose demand for one unit of a name
\* was covered by stock and dropped, while a low-stock row of the same name
\* in another unit put a row on the list.
C22_Witness ==
  /\ gpc = "idle" /\ gResult.list # 0 /\ gResult.error = "none"
  /\ ItemsOfList(gResult.list) # {}
  /\ \E i \in 1..Len(aggregated) : aggregated[i].isLowStock
  /\ \E key \in DemandKeys, unit \in DemandUnits :
       /\ ScaledDemand(PairsOf(key, unit)) > 0
       /\ SubTotal(aggregated, key, unit) = 0

\* The (entry, sub-total) positions of a demand map.
SubTotalsOf(agg) ==
  UNION {{<<i, k>> : k \in 1..Len(agg[i].quantities)} : i \in 1..Len(agg)}

\* C23 (materialization): the list generateShoppingList has
\* returned has one row for every (name, unit) sub-total of the final
\* demand map and no other row, every row is unchecked, and no two rows of
\* the list have the same name and unit.
C23_Materialization ==
  (gpc = "idle" /\ gResult.list # 0 /\ gResult.error = "none") =>
    LET rows == ItemsOfList(gResult.list)
    IN  /\ Cardinality(rows) = Cardinality(SubTotalsOf(aggregated))
        /\ \A ik \in SubTotalsOf(aggregated) :
             \E k \in rows :
               /\ shoppingListItems[k].name = aggregated[ik[1]].name
               /\ shoppingListItems[k].unit =
                    (IF aggregated[ik[1]].quantities[ik[2]].unit = <<>> THEN NULL
                     ELSE aggregated[ik[1]].quantities[ik[2]].unit)
               /\ shoppingListItems[k].quantity = aggregated[ik[1]].quantities[ik[2]].quantity
        /\ \A k \in rows : ~shoppingListItems[k].checked
        /\ \A k, l \in rows :
             (/\ shoppingListItems[k].name = shoppingListItems[l].name
              /\ shoppingListItems[k].unit = shoppingListItems[l].unit) => k = l

\* C23 witness: a generated list has two rows of one name, one counted by
\* the piece and one without unit, for a demand map of one name with two
\* sub-totals.
C23_Witness ==
  /\ gpc = "idle" /\ gResult.list # 0 /\ gResult.error = "none"
  /\ Len(aggregated) = 1 /\ Len(aggregated[1].quantities) = 2
  /\ \E k, l \in ItemsOfList(gResult.list) :
       /\ shoppingListItems[k].name = shoppingListItems[l].name
       /\ shoppingListItems[k].unit = normalizeUnit(piece)
       /\ shoppingListItems[l].unit = NULL

\* A low-stock row of the user put a quantity into the entry of the key.
Replenished(key) ==
  \E item \in LowStockRows(gArgs.userId) :
    normalizeIngredientName(item.name) = key /\ ToBuy(item, inventoryMap) > 0

\* C25 (stock-driven tagging): in the list generateShoppingList has
\* returned, a row's aisle starts with 'lowstock:' exactly when a low-stock
\* inventory row put a replenishment quantity into the row's entry of the
\* demand map, isLowStockItem is true for exactly those rows, and
\* groupItemsByAisle files every row under the label of the entry's aisle.
C25_Tagging ==
  (gpc = "idle" /\ gResult.list # 0 /\ gResult.error = "none") =>
    \A k \in ItemsOfList(gResult.list) :
      \E i \in 1..Len(aggregated) :
        /\ aggregated[i].name = shoppingListItems[k].name
        /\ startsWith(shoppingListItems[k].aisle, LowStockPrefix) <=> Replenished(aggregated[i].key)
        /\ isLowStockItem(shoppingListItems[k]) <=> Replenished(aggregated[i].key)
        /\ LET grouped == groupItemsByAisle(gResult.items)
               label   == AisleLabel([aisle |-> aggregated[i].aisle])
           IN  /\ label \in DOMAIN grouped
               /\ \E n \in 1..Len(grouped[label]) : grouped[label][n] = shoppingListItems[k]
               /\ \A other \in DOMAIN grouped \ {label} :
                    \A n \in 1..Len(grouped[other]) : grouped[other][n] # shoppingListItems[k]

\* C25 witness: a generated list has a row for a recipe ingredient of the
\* aisle 'produce' that a low-stock row added to: its aisle is
\* 'lowstock:produce' and it is filed under 'Fruits & Légumes'.
C25_Witness ==
  /\ gpc = "idle" /\ gResult.list # 0 /\ gResult.error = "none"
  /\ \E k \in ItemsOfList(gResult.list) :
       /\ shoppingListItems[k].aisle = LowStockPrefix \o produce
       /\ isLowStockItem(shoppingListItems[k])
       /\ AisleLabel(shoppingListItems[k]) = AISLE_TRANSLATIONS[produce]
       /\ shoppingListItems[k].name = capitalizeFirst(oignon)
       /\ oignon \in DemandKeys

----------------------------------------------------------------------------
(* Properties of the quick adjust                                          *)

\* C24 (adjust), as claimed: when updateInventoryItem has overwritten a
\* quantity with a different one, the step that logs the change appends a
\* transaction of type 'adjust' whose quantity is new quantity - old
\* quantity, from the old quantity to the new one.
C24_Adjust ==
  [][\A c \in Clients :
       (lpc[c] = "adjust_log" /\ lpc'[c] # lpc[c] /\ lcall[c].after # lcall[c].before) =>
         transactions' = Append(transactions,
           [inventory_id |-> lcall[c].id, type |-> "adjust",
            quantity |-> lcall[c].after - lcall[c].before,
            quantity_before |-> lcall[c].before, quantity_after |-> lcall[c].after,
            planned_meal_id |-> 0])]_vars

----------------------------------------------------------------------------
(* Properties of the shopping-list page                                    *)

\* C26 (regenerate keeps the range), as claimed: once handleRegenerate has
\* deleted the selected list, neither the list nor an item of it is left,
\* and when the generation it started returns, a new list has been created
\* whose start_date and end_date are those of the deleted list.
C26_RegenerateKeepsRange ==
  /\ [](rpc = "deleted" =>
          /\ \A k \in 1..Len(shoppingLists) : shoppingLists[k].id # selectedList.id
          /\ ItemsOfList(selectedList.id) = {})
  /\ [][(rpc = "regenerating" /\ rpc' = "idle") =>
          /\ gResult.list # 0
          /\ selectedList'.start_date = selectedList.start_date
          /\ selectedList'.end_date = selectedList.end_date
          /\ \E k \in 1..Len(shoppingLists) :
               /\ shoppingLists[k].id = gResult.list
               /\ shoppingLists[k].start_date = selectedList.start_date
               /\ shoppingLists[k].end_date = selectedList.end_date]_vars


----------------------------------------------------------------------------
(* Properties of the recipe service.                                        *)

\* C27: when createRecipe or updateRecipe has returned a recipe, the stored
\* base_servings of that recipe, which generateShoppingList divides by, is
\* the base_servings of the input (4 when createRecipe was given none).
C27_StoredBaseServings ==
  (cpc = "idle" /\ ccall.op # "none" /\ cResult.error = "none" /\ cResult.recipe # "")
    => LET given == ccall.input.base_servings
       IN  \/ given = 0 /\ ccall.op = "update"
           \/ recipes[cResult.recipe].base_servings = OrDefault(given, 2 * 2)


----------------------------------------------------------------------------
(* Properties of the unit table.                                            *)

\* Two units are the singular or the plural form of one unit of the table.
SameUnitForms(u, v) == \E forms \in UnitPlurals : {u, v} \subseteq {forms[1], forms[2]}

\* C28: when step 2 has run, two ingredients of one group whose units are
\* the singular and the plural form of one unit of the unit table have the
\* same normalized unit, and a group whose ingredients all use forms of one
\* unit has a single sub-total.
C28_UnitPlurals ==
  gpc = "deduct" =>
    \A i \in 1..Len(aggregated) :
      LET pairs == {x \in DemandPairs :
                      normalizeIngredientName(x[2].name) = aggregated[i].key}
      IN  /\ \A x, y \in pairs : SameUnitForms(x[2].unit, y[2].unit)
                                     => normalizeUnit(x[2].unit) = normalizeUnit(y[2].unit)
          /\ (\A x, y \in pairs : SameUnitForms(x[2].unit, y[2].unit))
                => Len(aggregated[i].quantities) = 1


----------------------------------------------------------------------------
(* Properties of the restocking submit.                                     *)

\* C29: when handleSubmit goes on after an addToInventory, the item is put
\* among the processed ones, which leave the form, exactly when
\* addToInventory returned without error.
C29_ProcessedOnlyIfAdded ==
  [][(fpc = "await" /\ fpc' = "loop")
       => (Head(fTodo) \in fProcessed' <=> lResult[FormClient] = "ok")]_vars


----------------------------------------------------------------------------
(* Properties of normalizeIngredientName.                                   *)

\* C30: when steps 1.5 and 2 have run, every key of the demand map is its
\* own normalization, so is the normalization of the name shown for it, and
\* an inventory row stored under that name is in inventoryMap under the key.
C30_Idempotent ==
  gpc = "deduct" =>
    \A i \in 1..Len(aggregated) :
      LET key == aggregated[i].key
      IN  /\ normalizeIngredientName(key) = key
          /\ normalizeIngredientName(aggregated[i].name) = key
          /\ (\E item \in inventory : item.user_id = gArgs.userId /\ item.name = aggregated[i].name)
                => MapGet(inventoryMap, key, <<>>) # <<>>

====
